---- MODULE Spec2Model ----
(***************************************************************************)
(* Model of the layered (Bronze / Silver / Gold) stock-data pipeline and   *)
(* of the batch orchestrator of financial-market-analysis.                 *)
(*                                                                         *)
(*   - the three lake stages are modelled as one action per invocation of  *)
(*     load_stock_data / process_stock_data / aggregate_stock_data, over   *)
(*     an object store (key -> object), with the observability events and  *)
(*     the puts of the invocation recorded in `inv`;                       *)
(*   - the orchestrator is modelled with its sequential loop and its       *)
(*     thread pool (submit, run, complete, as_completed).                  *)
(***************************************************************************)
EXTENDS Integers, Sequences, FiniteSets, TLC

VARIABLES
    store,      \* the bucket: storage key -> object
    history,    \* every put made so far, in order: stage, inputs of the key, key
    inv,        \* the last stage invocation: inputs, events, puts, outcome
    ncalls,     \* number of stage invocations made so far
    call,       \* the process_tickers call: its arguments and collaborators
    phase,      \* where process_tickers is: idle, pool, returned, raised
    futures,    \* parallel branch: position in tickers -> state of its future
    results,    \* process_tickers' results dict: ticker -> entry
    errors,     \* process_tickers' errors list
    market_data,\* records saved by load_processed_data
    traces,     \* traces ended so far: name, id, success
    report,     \* the value process_tickers returned
    input,      \* the argument given to a function of the engine or of a stage
    output,     \* what the functions applied to it returned, by function
    pc,         \* where one ticker's pipeline is: the step it makes next
    log         \* the steps that pipeline has made, in order, with their outcome

lakeVars == <<store, history, inv, ncalls>>
batchVars == <<call, phase, futures, results, errors, market_data, traces, report>>
pureVars == <<input, output, pc, log>>
vars == <<store, history, inv, ncalls,
          call, phase, futures, results, errors, market_data, traces, report,
          input, output, pc, log>>

----------------------------------------------------------------------------
(* Bounds of the model *)

MaxCalls == 1       \* stage invocations in one behaviour
MaxKeys == 2        \* length of the silver_keys list given to the Gold stage

----------------------------------------------------------------------------
(* Time: datetime values; `micro` stands for the sub-second part *)

Time(y, mo, d, h, mi, s, us) ==
    [year |-> y, month |-> mo, day |-> d, hour |-> h, minute |-> mi,
     second |-> s, micro |-> us]

\* datetimes used as write timestamps / wall-clock readings
KeyTimes ==
    { Time(2024, 3, 7, 9, 5, 0, 0),      \* a first instant
      Time(2024, 3, 7, 9, 5, 0, 1),      \* same second, later sub-second
      Time(2024, 3, 7, 9, 5, 1, 0),      \* same day, next second
      Time(2024, 3, 21, 14, 30, 0, 0),   \* same month, another day
      Time(2024, 11, 7, 9, 5, 0, 0),     \* another month
      Time(2025, 3, 7, 9, 5, 0, 0) }     \* another year

\* wall-clock readings of the stage runs
StageNow == Time(2024, 3, 7, 9, 5, 0, 0)
StageTimes == { StageNow, Time(2024, 11, 21, 14, 30, 1, 0) }

SameSecond(a, b) ==
    /\ a.year = b.year /\ a.month = b.month /\ a.day = b.day
    /\ a.hour = b.hour /\ a.minute = b.minute /\ a.second = b.second

SameDay(a, b) == a.year = b.year /\ a.month = b.month /\ a.day = b.day

\* a number rendered without padding
Pad2_unpadded(n) == ToString(n)

\* format spec ":02d" / strftime's %m %d %H %M %S
Pad2(n) == IF n < 10 THEN "0" \o ToString(n) ELSE ToString(n)

\* strftime('%Y%m%d')
strftime_Ymd(t) == ToString(t.year) \o Pad2(t.month) \o Pad2(t.day)

\* strftime('%Y%m%d_%H%M%S')
strftime_Ymd_HMS(t) ==
    strftime_Ymd(t) \o "_" \o Pad2(t.hour) \o Pad2(t.minute) \o Pad2(t.second)

----------------------------------------------------------------------------
(* DataLakeSettings *)

BRONZE_PREFIX == "bronze/"
SILVER_PREFIX == "silver/"
GOLD_PREFIX == "gold/"

get_bronze_path(ticker, data_type, date) ==
    BRONZE_PREFIX \o "stocks/" \o ticker \o "/" \o data_type
        \o "/year=" \o ToString(date.year)
        \o "/month=" \o Pad2(date.month)
        \o "/day=" \o Pad2(date.day) \o "/"

get_silver_path(ticker, data_type, date) ==
    SILVER_PREFIX \o "stocks/" \o ticker \o "/" \o data_type
        \o "/year=" \o ToString(date.year)
        \o "/month=" \o Pad2(date.month) \o "/"

get_gold_path(ticker, data_type) ==
    GOLD_PREFIX \o "stocks/" \o ticker \o "/" \o data_type \o "/"

----------------------------------------------------------------------------
(* Tables (DataFrames), abstracted to a row count and the set of columns    *)
(* that hold values.                                                        *)

BarColumns ==
    {"timestamp", "open", "high", "low", "close", "volume", "adjusted_close"}

\* rows: number of rows; cols: the columns; last: the columns holding a value
\* in the last row
Frame(n, cs) == [rows |-> n, cols |-> cs, last |-> IF n > 0 THEN cs ELSE {}]

\* tables handed to the Bronze loader
DataFrames ==
    { Frame(0, BarColumns),
      Frame(3, BarColumns),
      Frame(20, BarColumns),
      Frame(3, BarColumns \ {"open", "adjusted_close"}),
      Frame(3, {"open", "high", "low"}) }

ParquetObject(df) == [kind |-> "parquet", rows |-> df.rows, cols |-> df.cols]
\* a JSON object: its top-level keys, and the row count it reports
JsonObject(ks, n) == [kind |-> "json", rows |-> n, cols |-> ks]

\* s3_client.put_object
Put(s, key, obj) == [k \in DOMAIN s \cup {key} |-> IF k = key THEN obj ELSE s[k]]

Event(name, err) == [name |-> name, error |-> err]

\* a put, as kept in `history` and in the invocation's `puts`
PutRec(op, what, ticker, data_type, time, key) ==
    [op |-> op, what |-> what, ticker |-> ticker, data_type |-> data_type,
     time |-> time, key |-> key]

NoInv ==
    [op |-> "none", ticker |-> "", in |-> <<>>, raised |-> FALSE, error |-> "",
     ret |-> <<>>, events |-> <<>>, puts |-> <<>>]

Invocation(op, ticker, in, raised, error, ret, events, puts) ==
    [op |-> op, ticker |-> ticker, in |-> in, raised |-> raised, error |-> error,
     ret |-> ret, events |-> events, puts |-> puts]

\* the bucket and the put history after an invocation, with its record
Effect(s, h, i) == [store |-> s, history |-> h, inv |-> i]

\* the try body ran to its end: the events emitted and the value returned
Completed(stage_event, op, ticker, in, ret, puts) ==
    Invocation(op, ticker, in, FALSE, "", ret,
               <<Event(stage_event \o "_started", ""),
                 Event(stage_event \o "_completed", "")>>, puts)

\* an except block that re-raises without logging the _failed event
Failed_unlogged(stage_event, op, ticker, in, err, puts) ==
    Invocation(op, ticker, in, TRUE, err, <<>>,
               <<Event(stage_event \o "_started", "")>>, puts)

\* the except block: log the _failed event with str(e), then re-raise
Failed(stage_event, op, ticker, in, err, puts) ==
    Invocation(op, ticker, in, TRUE, err, <<>>,
               <<Event(stage_event \o "_started", ""),
                 Event(stage_event \o "_failed", err)>>, puts)

\* a key that holds no object (get_object raises NoSuchKey)
MissingKey == "bronze/stocks/NONE/prices/missing.parquet"

\* get_object followed by pd.read_parquet succeeds
Readable(s, key) == key \in DOMAIN s /\ s[key].kind = "parquet"

ReadError(s, key) == IF key \in DOMAIN s THEN "read_parquet_error" ELSE "NoSuchKey"

----------------------------------------------------------------------------
(* Bronze loader: LoadToBronzeLayerUseCase.load_stock_data                  *)
(*   s, h: the bucket and the put history when the call is made             *)
(*   timestamp: <<>> (None, then datetime.now() = now) or <<t>>             *)
(*   fault: "none", "to_parquet" (serialisation raises), "put" (put raises) *)

BronzeFaults == {"none", "to_parquet", "put"}

\* a Bronze filename that carries the date only
bronze_key_of_daily(ticker, data_type, ts) ==
    get_bronze_path(ticker, data_type, ts)
        \o ticker \o "_" \o strftime_Ymd(ts) \o ".parquet"

\* full_key: the partition path and {ticker}_{%Y%m%d_%H%M%S}.parquet
bronze_key_of(ticker, data_type, ts) ==
    get_bronze_path(ticker, data_type, ts)
        \o ticker \o "_" \o strftime_Ymd_HMS(ts) \o ".parquet"

load_stock_data(s, h, ticker, data_df, data_type, timestamp, now, fault) ==
    LET ts == IF timestamp = <<>> THEN now ELSE timestamp[1]
        full_key == bronze_key_of(ticker, data_type, ts)
        in == [data_type |-> data_type, ts |-> ts, df |-> data_df, fault |-> fault]
        put == PutRec("bronze", "raw", ticker, data_type, ts, full_key)
    IN  IF fault = "none"
        THEN Effect(Put(s, full_key, ParquetObject(data_df)), Append(h, put),
                    Completed("bronze_layer_load", "bronze", ticker, in,
                              [r \in {"key"} |-> full_key], <<put>>))
        ELSE Effect(s, h, Failed("bronze_layer_load", "bronze", ticker, in, fault, <<>>))

----------------------------------------------------------------------------
(* Indicator engine, as far as the stages depend on it: the keys of the     *)
(* bundle returned by process_batch_data for a batch of n bars.             *)

BundleKeys(n) ==
    {"statistics"}
        \cup (IF n >= 5 THEN {"sma_5", "ema_5"} ELSE {})
        \cup (IF n >= 20 THEN {"sma_20", "ema_20", "bollinger_bands", "trends"} ELSE {})
        \cup (IF n >= 50 THEN {"sma_50"} ELSE {})
        \cup (IF n >= 14 THEN {"rsi_14"} ELSE {})
        \cup (IF n >= 26 THEN {"macd"} ELSE {})
        \cup (IF n >= 2 THEN {"volatility"} ELSE {})

\* process_batch_data: an exception inside the computation is caught and the
\* dict {"error": str(e)} is returned in place of the bundle
process_batch_data(n, raises) ==
    IF raises THEN {"error"} ELSE BundleKeys(n)

\* number of points of the SMA(window) series: rows with a null in any column
\* are dropped by dropna()
sma_points(df, window) ==
    IF df.rows >= window /\ BarColumns \subseteq df.cols
    THEN df.rows - window + 1 ELSE 0

\* number of points of the RSI(window) series of a batch whose windows all
\* hold a loss
rsi_points(df, window) ==
    IF df.rows >= window + 1 /\ BarColumns \subseteq df.cols
    THEN df.rows - window ELSE 0

----------------------------------------------------------------------------
(* Silver processor: ProcessToSilverLayerUseCase.process_stock_data         *)
(*   fault: "none", "clean" (cleaning or row conversion raises),            *)
(*          "compute" (exception inside the indicator computation),         *)
(*          "put_table", "put_indicators" (the put raises)                  *)

SilverFaults == {"none", "clean", "compute", "put_table", "put_indicators"}

\* _clean_and_standardize, on the abstraction of a table
clean_and_standardize(df) == Frame(df.rows, df.cols)

\* the columns added by the two left joins
merge_indicators(df, bundle) ==
    Frame(df.rows,
          df.cols
            \cup (IF "sma_20" \in bundle /\ sma_points(df, 20) > 0
                  THEN {"sma_20"} ELSE {})
            \cup (IF "rsi_14" \in bundle /\ rsi_points(df, 14) > 0
                  THEN {"rsi_14"} ELSE {}))

\* a Silver filename that carries the time of day as well
silver_key_of_stamped(ticker, now) ==
    get_silver_path(ticker, "prices", now)
        \o ticker \o "_processed_" \o strftime_Ymd_HMS(now) \o ".parquet"

\* full_key: the partition path and {ticker}_processed_{%Y%m%d}.parquet
silver_key_of(ticker, now) ==
    get_silver_path(ticker, "prices", now)
        \o ticker \o "_processed_" \o strftime_Ymd(now) \o ".parquet"

silver_indicators_key_of(ticker, now) ==
    get_silver_path(ticker, "prices", now)
        \o ticker \o "_indicators_" \o strftime_Ymd(now) \o ".json"

process_stock_data(s, h, ticker, bronze_key, now, fault) ==
    LET in == [bronze_key |-> bronze_key, now |-> now, fault |-> fault]
        failure(err, puts) ==
            Failed("silver_layer_process", "silver", ticker, in, err, puts)
        bronze_data == Frame(s[bronze_key].rows, s[bronze_key].cols)
        processed_data == clean_and_standardize(bronze_data)
        processed_results == process_batch_data(processed_data.rows, fault = "compute")
        merged == merge_indicators(processed_data, processed_results)
        full_key == silver_key_of(ticker, now)
        indicators_key == silver_indicators_key_of(ticker, now)
        s1 == Put(s, full_key, ParquetObject(merged))
        put1 == PutRec("silver", "table", ticker, "prices", now, full_key)
        put2 == PutRec("silver", "indicators", ticker, "prices", now, indicators_key)
        puts == <<put1>> \o (IF processed_results # {} THEN <<put2>> ELSE <<>>)
    IN  IF ~Readable(s, bronze_key)
        THEN Effect(s, h, failure(ReadError(s, bronze_key), <<>>))
        ELSE IF fault \in {"clean", "put_table"}
        THEN Effect(s, h, failure(fault, <<>>))
        ELSE IF processed_results # {} /\ fault = "put_indicators"
        THEN Effect(s1, Append(h, put1), failure(fault, <<put1>>))
        ELSE Effect(IF processed_results # {}
                    THEN Put(s1, indicators_key, JsonObject(processed_results, 0))
                    ELSE s1,
                    h \o puts,
                    Completed("silver_layer_process", "silver", ticker, in,
                              [r \in {"key"} |-> full_key], puts))

----------------------------------------------------------------------------
(* Gold aggregator: AggregateToGoldLayerUseCase.aggregate_stock_data        *)
(*   fault: a record of the computations and puts that raise                *)

GoldFault(m, st, p) == [monthly |-> m, stats |-> st, put |-> p]

GoldFaults ==
    { GoldFault(FALSE, FALSE, "none"), GoldFault(TRUE, FALSE, "none"),
      GoldFault(FALSE, TRUE, "none"), GoldFault(TRUE, TRUE, "none"),
      GoldFault(FALSE, FALSE, "monthly"), GoldFault(FALSE, FALSE, "statistics") }

RECURSIVE read_all_strict(_, _)
\* a loop that stops reading at the first unreadable key
read_all_strict(s, keys) ==
    IF keys = <<>> \/ ~Readable(s, Head(keys)) THEN <<>>
    ELSE <<Frame(s[Head(keys)].rows, s[Head(keys)].cols)>>
         \o read_all_strict(s, Tail(keys))

RECURSIVE read_all(_, _)
\* the loop over silver_keys: the tables read, unreadable keys skipped
read_all(s, keys) ==
    IF keys = <<>> THEN <<>>
    ELSE (IF Readable(s, Head(keys))
          THEN <<Frame(s[Head(keys)].rows, s[Head(keys)].cols)>> ELSE <<>>)
         \o read_all(s, Tail(keys))

RECURSIVE pd_concat(_)
pd_concat(frames) ==
    IF Len(frames) = 1 THEN frames[1]
    ELSE LET rest == pd_concat(Tail(frames))
         IN  [rows |-> frames[1].rows + rest.rows,
              cols |-> frames[1].cols \cup rest.cols,
              last |-> IF rest.rows > 0 THEN rest.last ELSE frames[1].last]

MonthlyRequired == {"timestamp", "open", "high", "low", "close"}

\* a rollup whose exception is not caught into None
monthly_computed_uncaught(df, raises) ==
    /\ MonthlyRequired \subseteq df.cols
    /\ "volume" \in df.cols

\* _calculate_monthly_aggregations returned a table (not None); the groupby
\* aggregation of a missing volume column raises and is caught
monthly_computed(df, raises) ==
    /\ MonthlyRequired \subseteq df.cols
    /\ ~raises
    /\ "volume" \in df.cols

\* not monthly_data.empty
monthly_nonempty(df) == df.rows > 0

\* _calculate_statistics ran into an exception (returns {}): int() or
\* strftime of the minimum of an empty column raises
statistics_raises(df, raises) ==
    \/ raises
    \/ df.rows = 0 /\ ({"volume", "timestamp"} \cap df.cols) # {}

\* the keys of the dict returned by _calculate_statistics
calculate_statistics(df, raises) ==
    IF statistics_raises(df, raises) THEN {}
    ELSE (IF "close" \in df.cols THEN {"price_stats"} ELSE {})
         \cup (IF "close" \in df.cols /\ df.rows > 1
               THEN {"return_stats", "total_return_pct"} ELSE {})
         \cup (IF "volume" \in df.cols THEN {"volume_stats"} ELSE {})
         \cup (IF "timestamp" \in df.cols THEN {"time_range"} ELSE {})
         \cup (IF {"close", "sma_20"} \subseteq df.cols /\ df.rows > 0
                  /\ "sma_20" \in df.last
               THEN {"current_trend"} ELSE {})

gold_monthly_key_of(ticker, now) ==
    get_gold_path(ticker, "analytics")
        \o ticker \o "_monthly_" \o strftime_Ymd(now) \o ".parquet"

gold_stats_key_of(ticker, now) ==
    get_gold_path(ticker, "analytics")
        \o ticker \o "_stats_" \o strftime_Ymd(now) \o ".json"

MonthlyColumns ==
    {"year_month", "open", "high", "low", "close", "volume", "timestamp",
     "monthly_return", "ma_3m", "volatility"}

NoDataError == "Nenhum dado encontrado para agregacao"

aggregate_stock_data(s, h, ticker, silver_keys, now, fault) ==
    LET in == [silver_keys |-> silver_keys, now |-> now, fault |-> fault]
        failure(err, puts) ==
            Failed("gold_layer_aggregate", "gold", ticker, in, err, puts)
        all_data == read_all(s, silver_keys)
        combined_data == pd_concat(all_data)
        has_monthly == monthly_computed(combined_data, fault.monthly)
                          /\ monthly_nonempty(combined_data)
        statistics == calculate_statistics(combined_data, fault.stats)
        \* stats['time_range']['trading_days'] = len(df)
        trading_days == IF "time_range" \in statistics THEN combined_data.rows ELSE 0
        monthly_key == gold_monthly_key_of(ticker, now)
        stats_key == gold_stats_key_of(ticker, now)
        s1 == IF has_monthly
              THEN Put(s, monthly_key, ParquetObject(Frame(1, MonthlyColumns)))
              ELSE s
        puts1 == IF has_monthly
                 THEN <<PutRec("gold", "monthly", ticker, "analytics", now, monthly_key)>>
                 ELSE <<>>
        s2 == IF statistics # {}
              THEN Put(s1, stats_key, JsonObject(statistics, trading_days))
              ELSE s1
        puts2 == puts1 \o (IF statistics # {}
                           THEN <<PutRec("gold", "statistics", ticker, "analytics", now, stats_key)>>
                           ELSE <<>>)
        result_keys ==
            [r \in (IF has_monthly THEN {"monthly"} ELSE {})
                      \cup (IF statistics # {} THEN {"statistics"} ELSE {})
               |-> IF r = "monthly" THEN monthly_key ELSE stats_key]
    IN  IF all_data = <<>>
        THEN Effect(s, h, failure(NoDataError, <<>>))
        ELSE IF has_monthly /\ fault.put = "monthly"
        THEN Effect(s, h, failure("put_monthly", <<>>))
        ELSE IF statistics # {} /\ fault.put = "statistics"
        THEN Effect(s1, h \o puts1, failure("put_statistics", puts1))
        ELSE Effect(s2, h \o puts2,
                    Completed("gold_layer_aggregate", "gold", ticker, in,
                              result_keys, puts2))

----------------------------------------------------------------------------
(* Specifications of the lake stages *)

Tickers == {"AAPL", "MSFT"}
DataTypes == {"prices", "fundamentals"}

\* sequences of length at most n over the set S
RECURSIVE SeqsUpTo(_, _)
SeqsUpTo(S, n) ==
    IF n = 0 THEN {<<>>}
    ELSE LET shorter == SeqsUpTo(S, n - 1)
         IN  shorter \cup {Append(q, x) : q \in shorter, x \in S}

\* The bucket as an earlier pipeline run left it: empty, after one Bronze
\* load, or after a Bronze load and a Silver run on its object.
LakeStates(tickers, data_types, load_times, times, frames, engine_faults) ==
    LET empty == Effect(<<>>, <<>>, NoInv)
        loaded == { load_stock_data(<<>>, <<>>, t, df, d, <<ts>>, ts, "none") :
                      t \in tickers, d \in data_types, ts \in load_times, df \in frames }
        processed == { process_stock_data(b.store, b.history, b.inv.ticker,
                                          b.inv.ret["key"], now, f) :
                         b \in loaded, now \in times, f \in engine_faults }
    IN  {empty} \cup loaded \cup processed

\* no process_tickers call was made
NoCall == [tickers |-> <<>>, parallel |-> FALSE, calculate_indicators |-> FALSE,
           env |-> <<>>]

BatchIdle ==
    /\ call = NoCall
    /\ phase = "none"
    /\ futures = <<>>
    /\ results = <<>>
    /\ errors = <<>>
    /\ market_data = {}
    /\ traces = {}
    /\ report = <<>>

\* no function was given an argument
PureIdle == input = <<>> /\ output = <<>> /\ pc = "idle" /\ log = <<>>

InitLake(states) ==
    /\ inv = NoInv
    /\ ncalls = 0
    /\ \E e \in states : store = e.store /\ history = e.history
    /\ BatchIdle
    /\ PureIdle

\* one invocation of a stage
Call(effect) ==
    /\ ncalls < MaxCalls
    /\ ncalls' = ncalls + 1
    /\ store' = effect.store
    /\ history' = effect.history
    /\ inv' = effect.inv
    /\ UNCHANGED batchVars
    /\ UNCHANGED pureVars

\* keys a caller passes as bronze_key: any object of the bucket, or none
KeyChoices == DOMAIN store \cup {MissingKey}

\* keys a caller passes in silver_keys: the listing of the Silver prefix (the
\* tables and their indicator siblings), or a key that holds no object
SilverListing == {history[i].key : i \in {j \in DOMAIN history : history[j].op = "silver"}}

SilverKeyChoices == SilverListing \cup {MissingKey}

(* Stages with every fault, on one ticker *)
Init == InitLake(LakeStates({"AAPL"}, {"prices"}, {StageNow}, StageTimes,
                            DataFrames, {"none", "compute"}))

BronzeLoad ==
    \E df \in DataFrames, now \in {StageNow}, fault \in BronzeFaults :
        Call(load_stock_data(store, history, "AAPL", df, "prices", <<now>>, now, fault))

SilverProcess ==
    \E key \in KeyChoices, now \in StageTimes, fault \in SilverFaults :
        Call(process_stock_data(store, history, "AAPL", key, now, fault))

GoldAggregate ==
    \E keys \in SeqsUpTo(SilverKeyChoices, MaxKeys), now \in {StageNow},
       fault \in GoldFaults :
        Call(aggregate_stock_data(store, history, "AAPL", keys, now, fault))

Next == BronzeLoad \/ SilverProcess \/ GoldAggregate

Spec == Init /\ [][Next]_vars

----------------------------------------------------------------------------
(* Claims on the stages, checked under Spec *)

\* the event prefix of each stage operation
StageEvent(op) ==
    CASE op = "bronze" -> "bronze_layer_load"
      [] op = "silver" -> "silver_layer_process"
      [] op = "gold" -> "gold_layer_aggregate"

\* C3: a failure at the read, clean, compute or write step of
\* process_stock_data aborts the operation: it raises and returns no silver
\* key; when the indicator computation fails, neither the merged Silver
\* object nor the indicators object is written.
C3_SilverFailureAborts ==
    inv.op = "silver" =>
        /\ (inv.in.fault # "none" \/ ~Readable(store, inv.in.bronze_key))
              => inv.raised /\ inv.ret = <<>>
        /\ (inv.in.fault = "compute") => inv.puts = <<>>

\* C8: every stage invocation emits <stage>_started first and then exactly
\* one of <stage>_completed and <stage>_failed; it raises iff _failed was
\* emitted; the _failed event carries the error message of the exception
\* raised and is in the log when the exception propagates; _completed is
\* never emitted by an invocation that raises.
C8_EventProtocol ==
    inv.op # "none" =>
        LET ev == inv.events
            stage == StageEvent(inv.op)
        IN  /\ Len(ev) = 2
            /\ ev[1].name = stage \o "_started"
            /\ ev[2].name \in {stage \o "_completed", stage \o "_failed"}
            /\ inv.raised <=> (ev[2].name = stage \o "_failed")
            /\ inv.raised => ev[2].error = inv.error /\ inv.error # ""
            /\ inv.raised =>
                  \A i \in DOMAIN ev : ev[i].name # stage \o "_completed"

\* a stage invocation that raised after its _started and _failed events
C8_Witness ==
    /\ inv.op = "silver"
    /\ inv.raised
    /\ inv.in.fault = "put_indicators"
    /\ inv.events[2] = Event("silver_layer_process_failed", "put_indicators")

\* the entries of silver_keys that can be read
ReadableEntries(keys) == {i \in DOMAIN keys : Readable(store, keys[i])}

RECURSIVE SumRows(_, _)
\* total number of rows of the objects at the entries I of keys
SumRows(keys, I) ==
    IF I = {} THEN 0
    ELSE LET i == CHOOSE x \in I : TRUE
         IN  store[keys[i]].rows + SumRows(keys, I \ {i})

\* C9: aggregate_stock_data raises for lack of data iff no entry of
\* silver_keys is readable (an empty list included); otherwise the unreadable
\* entries are skipped and the statistics are computed over exactly the
\* rows of the readable entries.
C9_GoldSkipsUnreadable ==
    inv.op = "gold" =>
        LET keys == inv.in.silver_keys
            R == ReadableEntries(keys)
        IN  /\ (inv.raised /\ inv.error = NoDataError) <=> (R = {})
            /\ (~inv.raised /\ "statistics" \in DOMAIN inv.ret
                  /\ "time_range" \in store[inv.ret["statistics"]].cols)
                 => store[inv.ret["statistics"]].rows = SumRows(keys, R)

\* an aggregation over a readable and an unreadable entry that returned
C9_Witness ==
    /\ inv.op = "gold"
    /\ ~inv.raised
    /\ "statistics" \in DOMAIN inv.ret
    /\ \E i, j \in DOMAIN inv.in.silver_keys :
          /\ Readable(store, inv.in.silver_keys[i])
          /\ ~Readable(store, inv.in.silver_keys[j])
          /\ store[inv.in.silver_keys[i]].rows > 0

\* the columns of the concatenation of the readable entries
UnionCols(keys) == UNION {store[keys[i]].cols : i \in ReadableEntries(keys)}

\* the key of a put of the invocation, by what it holds
PutKeys(what) == {inv.puts[i].key : i \in {j \in DOMAIN inv.puts : inv.puts[j].what = what}}

\* C10: the map returned by aggregate_stock_data contains `monthly` iff the
\* monthly rollup was computed (required columns present, no exception) with
\* at least one row and its object was put, and `statistics` iff the
\* statistics computation succeeded with a non-empty result and its object
\* was put; a failure to compute one output neither raises nor keeps the
\* other from being put and returned.
C10_GoldOutputsIndependent ==
    (inv.op = "gold" /\ ReadableEntries(inv.in.silver_keys) # {}) =>
        LET keys == inv.in.silver_keys
            f == inv.in.fault
            cols == UnionCols(keys)
            rows == SumRows(keys, ReadableEntries(keys))
            monthly_ok == /\ {"timestamp", "open", "high", "low", "close", "volume"}
                                \subseteq cols
                          /\ ~f.monthly
                          /\ rows > 0
            stats_ok == /\ ~f.stats
                        /\ rows > 0 \/ ({"volume", "timestamp"} \cap cols) = {}
                        /\ ({"close", "volume", "timestamp"} \cap cols) # {}
        IN  /\ f.put = "none" => ~inv.raised
            /\ ~inv.raised =>
                  /\ ("monthly" \in DOMAIN inv.ret) <=> monthly_ok
                  /\ ("monthly" \in DOMAIN inv.ret) <=>
                        (PutKeys("monthly") # {} /\ PutKeys("monthly") \subseteq DOMAIN store)
                  /\ "monthly" \in DOMAIN inv.ret => PutKeys("monthly") = {inv.ret["monthly"]}
                  /\ ("statistics" \in DOMAIN inv.ret) <=> stats_ok
                  /\ ("statistics" \in DOMAIN inv.ret) <=>
                        (PutKeys("statistics") # {}
                           /\ PutKeys("statistics") \subseteq DOMAIN store)
                  /\ "statistics" \in DOMAIN inv.ret
                        => PutKeys("statistics") = {inv.ret["statistics"]}

\* the monthly rollup failed and the statistics were still put and returned
C10_Witness ==
    /\ inv.op = "gold"
    /\ ~inv.raised
    /\ inv.in.fault.monthly
    /\ {"timestamp", "open", "high", "low", "close", "volume"}
          \subseteq UnionCols(inv.in.silver_keys)
    /\ DOMAIN inv.ret = {"statistics"}
    /\ inv.ret["statistics"] \in DOMAIN store

----------------------------------------------------------------------------
(* The stages run at chosen write times, for the claims on the object keys *)

GoldTimes == {Time(2024, 3, 7, 9, 5, 0, 0), Time(2024, 11, 21, 14, 30, 0, 0)}

InitKeys ==
    InitLake(LakeStates({"AAPL"}, {"prices"}, KeyTimes, KeyTimes,
                        {Frame(3, BarColumns)}, {"none"}))

LoadAt ==
    \E ticker \in Tickers, data_type \in DataTypes, ts \in KeyTimes :
        Call(load_stock_data(store, history, ticker, Frame(3, BarColumns),
                             data_type, <<ts>>, ts, "none"))

ProcessAt ==
    \E key \in KeyChoices, now \in KeyTimes :
        Call(process_stock_data(store, history, "AAPL", key, now, "none"))

AggregateAt ==
    \E keys \in SeqsUpTo(SilverKeyChoices, MaxKeys), now \in GoldTimes :
        Call(aggregate_stock_data(store, history, "MSFT", keys, now,
                                  GoldFault(FALSE, FALSE, "none")))

NextKeys == LoadAt \/ ProcessAt \/ AggregateAt

SpecKeys == InitKeys /\ [][NextKeys]_vars

\* the puts of one stage and one kind of object, as positions of the history
PutsOf(op, what) ==
    {i \in DOMAIN history : history[i].op = op /\ history[i].what = what}

\* two puts for the same ticker and data type
SameTarget(a, b) == a.ticker = b.ticker /\ a.data_type = b.data_type

\* C5 (as stated): over any sequence of load_stock_data calls, every call
\* puts its object under a key that no earlier call used, also when two calls
\* for the same ticker and data type fall in the same second.
C5_BronzeNeverOverwrites ==
    \A i, j \in PutsOf("bronze", "raw") :
        i < j => history[j].key # history[i].key

\* C5 (amended): a load_stock_data call reuses the key of an earlier call
\* exactly when both are for the same ticker and data type and their write
\* timestamps fall in the same second; every other call puts under a key no
\* earlier call used.
C5_BronzeKeyPerSecond ==
    \A i, j \in PutsOf("bronze", "raw") :
        i < j =>
            ((history[j].key = history[i].key)
               <=> (SameTarget(history[i], history[j])
                      /\ SameSecond(history[i].time, history[j].time)))

\* two loads of one ticker and data type at different instants of one second
C5_Witness ==
    \E i, j \in PutsOf("bronze", "raw") :
        /\ i < j
        /\ SameTarget(history[i], history[j])
        /\ history[i].time # history[j].time
        /\ SameSecond(history[i].time, history[j].time)
        /\ history[j].key = history[i].key
        /\ history[j].key \in DOMAIN store

\* C6 (as stated): a Bronze or Silver run repeated for the same ticker and
\* data type at a different wall-clock time writes under a new key, two
\* Silver runs on one calendar day included.
C6_RerunWritesNewKey ==
    \A op \in {"bronze", "silver"}, what \in {"raw", "table", "indicators"} :
        \A i, j \in PutsOf(op, what) :
            (i < j /\ SameTarget(history[i], history[j])
               /\ history[i].time # history[j].time)
              => history[j].key # history[i].key

\* C6 (amended): a Bronze run repeated for the same ticker and data type
\* writes under a new key iff its write time falls in a different second; a
\* Silver run repeated for the same ticker writes its table and its
\* indicators under new keys iff it runs on a different calendar day, and
\* replaces the objects of the earlier run when it runs on the same day.
C6_RerunKeyGranularity ==
    /\ \A i, j \in PutsOf("bronze", "raw") :
          (i < j /\ SameTarget(history[i], history[j]))
            => ((history[j].key # history[i].key)
                  <=> ~SameSecond(history[i].time, history[j].time))
    /\ \A what \in {"table", "indicators"} :
          \A i, j \in PutsOf("silver", what) :
              (i < j /\ SameTarget(history[i], history[j]))
                => ((history[j].key # history[i].key)
                      <=> ~SameDay(history[i].time, history[j].time))

\* two Silver runs of one ticker at different times of one calendar day
C6_Witness ==
    \E i, j \in PutsOf("silver", "table") :
        /\ i < j
        /\ SameTarget(history[i], history[j])
        /\ SameDay(history[i].time, history[j].time)
        /\ ~SameSecond(history[i].time, history[j].time)
        /\ history[j].key = history[i].key
        /\ inv.op = "silver" /\ ~inv.raised /\ inv.ret["key"] = history[i].key

\* a decimal digit as text
Digit(d) ==
    CASE d = 0 -> "0" [] d = 1 -> "1" [] d = 2 -> "2" [] d = 3 -> "3"
      [] d = 4 -> "4" [] d = 5 -> "5" [] d = 6 -> "6" [] d = 7 -> "7"
      [] d = 8 -> "8" [] d = 9 -> "9"

\* a number below 100 as two digits, and a year as four
MM(n) == Digit(n \div 10) \o Digit(n % 10)
YYYY(y) == MM(y \div 100) \o MM(y % 100)
YYYYMMDD(t) == YYYY(t.year) \o MM(t.month) \o MM(t.day)
HHMMSS(t) == MM(t.hour) \o MM(t.minute) \o MM(t.second)

\* the key of one put of the invocation has the shape documented for what
\* it holds, `root` being the path segments between the layer prefix and the
\* ticker
KeyShaped(root, p) ==
    LET t == inv.ticker
        at == IF inv.op = "bronze" THEN inv.in.ts ELSE inv.in.now
        bronze_dir == "bronze/" \o root \o t \o "/" \o p.data_type \o "/year="
                      \o YYYY(at.year) \o "/month=" \o MM(at.month)
                      \o "/day=" \o MM(at.day) \o "/"
        silver_dir == "silver/" \o root \o t \o "/prices/year=" \o YYYY(at.year)
                      \o "/month=" \o MM(at.month) \o "/"
        gold_dir == "gold/" \o root \o t \o "/analytics/"
    IN  CASE p.what = "raw" ->
               /\ inv.op = "bronze" /\ p.data_type = inv.in.data_type
               /\ p.key = bronze_dir \o t \o "_" \o YYYYMMDD(at) \o "_"
                            \o HHMMSS(at) \o ".parquet"
          [] p.what = "table" ->
               /\ inv.op = "silver"
               /\ p.key = silver_dir \o t \o "_processed_" \o YYYYMMDD(at)
                            \o ".parquet"
          [] p.what = "indicators" ->
               /\ inv.op = "silver"
               /\ p.key = silver_dir \o t \o "_indicators_" \o YYYYMMDD(at)
                            \o ".json"
          [] p.what = "monthly" ->
               /\ inv.op = "gold"
               /\ p.key = gold_dir \o t \o "_monthly_" \o YYYYMMDD(at)
                            \o ".parquet"
          [] p.what = "statistics" ->
               /\ inv.op = "gold"
               /\ p.key = gold_dir \o t \o "_stats_" \o YYYYMMDD(at) \o ".json"

\* every key put by the invocation is shaped as documented under `root`
KeysShaped(root) ==
    \A i \in DOMAIN inv.puts :
        KeyShaped(root, inv.puts[i]) /\ inv.puts[i].key \in DOMAIN store

\* C7 (as stated): the keys of the three stages have the documented shapes,
\* the ticker being the path segment directly after the layer prefix and
\* month and day zero-padded to two digits.
C7_DocumentedKeyShapes ==
    inv.op # "none" => KeysShaped("")

\* C7 (amended): the keys of the three stages have the documented shapes
\* with one more path segment, `stocks`, between the layer prefix and the
\* ticker: bronze/stocks/<ticker>/..., silver/stocks/<ticker>/...,
\* gold/stocks/<ticker>/analytics/...; month and day are zero-padded to two
\* digits.
C7_KeyShapesUnderStocks ==
    inv.op # "none" => KeysShaped("stocks/")

\* a Silver run in a one-digit month over an object loaded on a one-digit day
C7_Witness ==
    /\ inv.op = "silver"
    /\ ~inv.raised
    /\ inv.in.now = Time(2024, 3, 21, 14, 30, 0, 0)
    /\ inv.in.bronze_key =
         "bronze/stocks/AAPL/prices/year=2024/month=03/day=07/AAPL_20240307_090500.parquet"
    /\ Len(inv.puts) = 2
    /\ inv.puts[1].key =
         "silver/stocks/AAPL/prices/year=2024/month=03/AAPL_processed_20240321.parquet"
    /\ inv.puts[2].key =
         "silver/stocks/AAPL/prices/year=2024/month=03/AAPL_indicators_20240321.json"

----------------------------------------------------------------------------
(* The Batch Orchestrator: BatchProcessStocksUseCase *)

MaxTickers == 5     \* length of the longest tickers list
max_workers == 5    \* default size of the thread pool

TickerName(i) == "T" \o ToString(i)
TickerList(n) == [i \in 1..n |-> TickerName(i)]

\* what the collaborators do for one ticker: nothing goes wrong, the market
\* data service returns no prices or raises, the repository's get_prices
\* raises, the indicator math raises, the market data repository's save_data
\* raises
Scenarios == {"ok", "no_prices", "extract_raises", "get_prices_raises",
              "engine_fails", "save_raises"}

\* the outcome of a call: a value returned or an exception, with the records
\* it saved
Returned(value, saved) ==
    [raised |-> FALSE, error |-> "", value |-> value, saved |-> saved]
Raised(err, saved) ==
    [raised |-> TRUE, error |-> err, value |-> <<>>, saved |-> saved]

\* number of prices extract_historical_prices returns
extract_historical_prices(scenario) ==
    IF scenario = "extract_raises" THEN Raised("extract_failed", {})
    ELSE Returned(IF scenario = "no_prices" THEN 0 ELSE 20, {})

\* the keys of the dict calculate_technical_indicators returns
calculate_technical_indicators(prices, scenario) ==
    IF scenario = "get_prices_raises" THEN Raised("get_prices_failed", {})
    ELSE IF prices = 0 THEN Returned({}, {})
    ELSE Returned(process_batch_data(prices, scenario = "engine_fails"), {})

load_processed_data(source_id, data_type, data, scenario) ==
    IF scenario = "save_raises" THEN Raised("save_data_failed", {})
    ELSE Returned(<<>>, {[source_id |-> source_id, data_type |-> data_type,
                          data |-> data]})

\* the result dict of a ticker, before the indicators are counted
TickerResult(ticker, prices) ==
    [ticker |-> ticker, status |-> "success", price_points |-> prices]

process_single_ticker(ticker, scenario, calculate_indicators) ==
    LET extracted == extract_historical_prices(scenario)
        prices == extracted.value
        result == TickerResult(ticker, prices)
        indicators == calculate_technical_indicators(prices, scenario)
        counted == Put(result, "indicators_calculated",
                       Cardinality(indicators.value))
        loaded == load_processed_data(ticker, "technical_indicators",
                                      indicators.value, scenario)
    IN  IF extracted.raised THEN Raised(extracted.error, {})
        ELSE IF calculate_indicators /\ prices > 0
        THEN IF indicators.raised THEN Raised(indicators.error, {})
             ELSE IF loaded.raised THEN Raised(loaded.error, {})
             ELSE Returned(counted, loaded.saved)
        ELSE Returned(result, {})

\* the ticker trace ended by _process_single_ticker
TickerTrace(ticker, outcome) ==
    [name |-> "ticker_process", id |-> ticker, success |-> ~outcome.raised]

\* results[ticker] = ... and errors.append(...) of the two try statements
ErrorEntry(err) == [status |-> "error", error |-> err]
\* the dict and the list after a try statement; raised: an exception left it
Acc(r, e) == [results |-> r, errors |-> e, raised |-> FALSE]

\* a try statement without its except branch
propagate_failure(r, e, ticker, outcome) ==
    IF outcome.raised THEN [results |-> r, errors |-> e, raised |-> TRUE]
    ELSE Acc(Put(r, ticker, outcome.value), e)

\* an except branch that only logs the failure
drop_failure(r, e, ticker, outcome) ==
    IF outcome.raised THEN Acc(r, e)
    ELSE Acc(Put(r, ticker, outcome.value), e)

\* try/except around one _process_single_ticker call of the sequential loop
sequential_try(r, e, ticker, outcome) ==
    IF outcome.raised
    THEN Acc(Put(r, ticker, ErrorEntry(outcome.error)),
             Append(e, [ticker |-> ticker, error |-> outcome.error]))
    ELSE Acc(Put(r, ticker, outcome.value), e)

\* try/except around future.result() in the as_completed loop
future_result_try(r, e, ticker, outcome) ==
    IF outcome.raised
    THEN Acc(Put(r, ticker, ErrorEntry(outcome.error)),
             Append(e, [ticker |-> ticker, error |-> outcome.error]))
    ELSE Acc(Put(r, ticker, outcome.value), e)

\* the summary computed after either branch, and the batch trace ended
success_count(r) == Cardinality({t \in DOMAIN r : r[t].status = "success"})

batch_report(tickers, r) ==
    [batch_id |-> "batch_" \o strftime_Ymd_HMS(StageNow),
     total |-> Len(tickers),
     successful |-> success_count(r),
     failed |-> Len(tickers) - success_count(r),
     results |-> r]

BatchTrace(ok) == [name |-> "batch_process", id |-> "batch", success |-> ok]

\* the accumulators before the first ticker
NoAcc == [results |-> <<>>, errors |-> <<>>, raised |-> FALSE,
          market_data |-> {}, traces |-> {}]

\* the outcome of the work unit of the ticker at position i
WorkUnit(c, i) ==
    process_single_ticker(c.tickers[i], c.env[c.tickers[i]], c.calculate_indicators)

RECURSIVE sequential_loop(_, _, _)
\* for ticker in tickers, from position i on: the accumulators at the end
sequential_loop(c, i, acc) ==
    IF i > Len(c.tickers) THEN acc
    ELSE LET outcome == WorkUnit(c, i)
             step == sequential_try(acc.results, acc.errors, c.tickers[i], outcome)
             next == [results |-> step.results, errors |-> step.errors,
                      raised |-> step.raised,
                      market_data |-> acc.market_data \cup outcome.saved,
                      traces |-> acc.traces \cup {TickerTrace(c.tickers[i], outcome)}]
         IN  IF step.raised THEN next ELSE sequential_loop(c, i + 1, next)

\* the branch condition of process_tickers
use_pool(c) == c.parallel /\ Len(c.tickers) > 1

\* the collaborators of a call: any scenario for the first ticker, and for
\* each of the others an extraction that works or raises
Envs(tickers) ==
    {env \in [{tickers[i] : i \in DOMAIN tickers} -> Scenarios] :
        \A i \in DOMAIN tickers :
            i > 1 => env[tickers[i]] \in {"ok", "extract_raises"}}

InitBatch ==
    /\ store = <<>> /\ history = <<>> /\ inv = NoInv /\ ncalls = 0
    /\ \E n \in 0..MaxTickers, p \in BOOLEAN, ci \in BOOLEAN :
          \E env \in Envs(TickerList(n)) :
              /\ ci \/ n <= 2
              /\ call = [tickers |-> TickerList(n), parallel |-> p,
                         calculate_indicators |-> ci, env |-> env]
    /\ phase = "idle"
    /\ futures = <<>>
    /\ results = <<>>
    /\ errors = <<>>
    /\ market_data = {}
    /\ traces = {}
    /\ report = <<>>
    /\ PureIdle

\* process_tickers with parallel false or at most one ticker, start to return
ProcessSequentially ==
    /\ phase = "idle"
    /\ ~use_pool(call)
    /\ LET acc == sequential_loop(call, 1, NoAcc)
       IN  /\ results' = acc.results
           /\ errors' = acc.errors
           /\ market_data' = acc.market_data
           /\ IF acc.raised
              THEN /\ traces' = acc.traces \cup {BatchTrace(FALSE)}
                   /\ report' = <<>>
                   /\ phase' = "raised"
              ELSE /\ traces' = acc.traces \cup {BatchTrace(Len(acc.errors) = 0)}
                   /\ report' = batch_report(call.tickers, acc.results)
                   /\ phase' = "returned"
    /\ UNCHANGED <<call, futures>>
    /\ UNCHANGED lakeVars
    /\ UNCHANGED pureVars

\* executor.submit for every ticker: the futures are queued in list order
Submit ==
    /\ phase = "idle"
    /\ use_pool(call)
    /\ futures' = [i \in DOMAIN call.tickers |-> "queued"]
    /\ phase' = "pool"
    /\ UNCHANGED <<call, results, errors, market_data, traces, report>>
    /\ UNCHANGED lakeVars
    /\ UNCHANGED pureVars

Running == {i \in DOMAIN futures : futures[i] = "running"}

\* a worker thread takes the oldest queued work item
WorkerStart ==
    /\ phase = "pool"
    /\ Cardinality(Running) < max_workers
    /\ \E i \in DOMAIN futures :
          /\ futures[i] = "queued"
          /\ \A j \in DOMAIN futures : j < i => futures[j] # "queued"
          /\ futures' = [futures EXCEPT ![i] = "running"]
    /\ UNCHANGED <<call, phase, results, errors, market_data, traces, report>>
    /\ UNCHANGED lakeVars
    /\ UNCHANGED pureVars

\* a worker thread runs _process_single_ticker to its end
WorkerFinish ==
    /\ phase = "pool"
    /\ \E i \in Running :
          LET outcome == WorkUnit(call, i)
          IN  /\ futures' = [futures EXCEPT ![i] = "done"]
              /\ market_data' = market_data \cup outcome.saved
              /\ traces' = traces \cup {TickerTrace(call.tickers[i], outcome)}
    /\ UNCHANGED <<call, phase, results, errors, report>>
    /\ UNCHANGED lakeVars
    /\ UNCHANGED pureVars

\* futures as_completed may yield next
as_completed(fs) == {i \in DOMAIN fs : fs[i] = "done"}

\* one iteration of the as_completed loop
Collect ==
    /\ phase = "pool"
    /\ \E i \in as_completed(futures) :
          LET step == future_result_try(results, errors, call.tickers[i],
                                        WorkUnit(call, i))
          IN  /\ futures' = [futures EXCEPT ![i] = "collected"]
              /\ results' = step.results
              /\ errors' = step.errors
              /\ IF step.raised
                 THEN phase' = "raised" /\ traces' = traces \cup {BatchTrace(FALSE)}
                 ELSE UNCHANGED <<phase, traces>>
    /\ UNCHANGED <<call, market_data, report>>
    /\ UNCHANGED lakeVars
    /\ UNCHANGED pureVars

\* every future was yielded: the pool shuts down, the report is returned
Return ==
    /\ phase = "pool"
    /\ \A i \in DOMAIN futures : futures[i] = "collected"
    /\ traces' = traces \cup {BatchTrace(Len(errors) = 0)}
    /\ report' = batch_report(call.tickers, results)
    /\ phase' = "returned"
    /\ UNCHANGED <<call, futures, results, errors, market_data>>
    /\ UNCHANGED lakeVars
    /\ UNCHANGED pureVars

NextBatch ==
    ProcessSequentially \/ Submit \/ WorkerStart \/ WorkerFinish \/ Collect \/ Return

SpecBatch == InitBatch /\ [][NextBatch]_vars

----------------------------------------------------------------------------
(* Claims on the Batch Orchestrator, checked under SpecBatch *)

\* the tickers of the call whose work unit ends in an exception
FailingTickers ==
    {call.tickers[i] : i \in {j \in DOMAIN call.tickers :
        \/ call.env[call.tickers[j]] = "extract_raises"
        \/ /\ call.calculate_indicators
           /\ call.env[call.tickers[j]] \in {"get_prices_raises", "save_raises"}}}

\* the tickers with an error entry in a results dict
ErrorEntries(r) == {t \in DOMAIN r : r[t].status = "error"}

\* process_tickers has ended, or one of its threads can take a step
Progresses ==
    \/ phase \in {"idle", "returned", "raised"}
    \/ /\ phase = "pool"
       /\ \/ \E i \in DOMAIN futures : futures[i] \in {"running", "done"}
          \/ /\ \E i \in DOMAIN futures : futures[i] = "queued"
             /\ Cardinality(Running) < max_workers
          \/ \A i \in DOMAIN futures : futures[i] = "collected"

\* C1: a failure of a ticker's work unit never aborts the batch:
\* process_tickers does not raise and does not get stuck, and the report it
\* returns has an entry in `results` for every ticker of the input (an error
\* entry exactly for the tickers whose work unit raised), total = number of
\* input tickers and successful = total - failed.
C1_BatchNeverAborts ==
    /\ phase # "raised"
    /\ Progresses
    /\ phase = "returned" =>
          /\ \A i \in DOMAIN call.tickers : call.tickers[i] \in DOMAIN report.results
          /\ ErrorEntries(report.results) = FailingTickers
          /\ report.total = Len(call.tickers)
          /\ report.successful = report.total - report.failed
          /\ report.failed = Cardinality(FailingTickers)

\* a sequential batch returned with a failed first ticker and a successful
\* second one
C1_Witness ==
    /\ phase = "returned"
    /\ ~call.parallel
    /\ Len(call.tickers) >= 2
    /\ report.results["T1"].status = "error"
    /\ report.results["T2"].status = "success"
    /\ report.failed >= 1 /\ report.successful >= 1

\* total, successful, failed and the tickers with error entries
Summary(rep) ==
    [total |-> rep.total, successful |-> rep.successful, failed |-> rep.failed,
     errors |-> ErrorEntries(rep.results)]

\* C2: for a list of distinct tickers and any subset of them whose
\* extraction raises, the report of process_tickers with parallel true has,
\* under every completion order of the workers, the counts and the error
\* tickers of the report with parallel false; 5 tickers of which exactly 2
\* raise give total=5, successful=3, failed=2 and an error entry for each of
\* the 2.
C2_ParallelEqualsSequential ==
    phase = "returned" =>
        LET seq == sequential_loop(call, 1, NoAcc)
        IN  /\ Summary(report) = Summary(batch_report(call.tickers, seq.results))
            /\ report.results = seq.results
            /\ market_data = seq.market_data
            /\ (Len(call.tickers) = 5 /\ Cardinality(FailingTickers) = 2)
                 => /\ report.total = 5
                    /\ report.successful = 3
                    /\ report.failed = 2
                    /\ ErrorEntries(report.results) = FailingTickers

\* a parallel batch of 5 tickers returned, 2 of them failed and collected
\* against the list order
C2_Witness ==
    /\ phase = "returned"
    /\ call.parallel
    /\ Len(call.tickers) = 5
    /\ Len(errors) = 2
    /\ errors[1].ticker = "T4" /\ errors[2].ticker = "T2"
    /\ report.successful = 3

\* C4: an exception inside the indicator math is surfaced as a failure:
\* calculate_technical_indicators does not return normally, the ticker's
\* entry in the report is not a success, and no record holding the error
\* marker is saved as indicator data.
C4_EngineFailureSurfaced ==
    phase = "returned" =>
        \A i \in DOMAIN call.tickers :
            LET t == call.tickers[i]
            IN  (call.calculate_indicators /\ call.env[t] = "engine_fails") =>
                    /\ calculate_technical_indicators(20, call.env[t]).raised
                    /\ report.results[t].status # "success"
                    /\ \A m \in market_data :
                          m.source_id = t => "error" \notin m.data

----------------------------------------------------------------------------
(* The Indicator Engine: the two DataProcessingService backends *)

\* a missing value (None / NaN / null) and a present one
Null == <<>>
Some(v) == <<v>>

RECURSIVE GCD(_, _)
GCD(a, b) == IF b = 0 THEN a ELSE GCD(b, a % b)

\* the exact quotient n / d, d > 0, in lowest terms
Rat(n, d) ==
    LET g == GCD(IF n < 0 THEN -n ELSE n, d)
    IN  [num |-> n \div g, den |-> d \div g]

\* one record of the batch: the keys the indicators read
Bar(t, c, adj) == [timestamp |-> t, close |-> c, adjusted_close |-> adj]

\* pd.DataFrame(data): the rows in list order and the columns; an empty list
\* gives a frame without columns
DataFrame(data, cs) == [rows |-> data, cols |-> IF data = <<>> THEN {} ELSE cs]

\* the rows left in the order given
unsorted(rows) == rows

\* the place of row i among the rows in ascending order of timestamp, rows of
\* one timestamp in the order given
insert_by_timestamp(rows, i) ==
    Cardinality({j \in 1..Len(rows) :
                    \/ rows[j].timestamp < rows[i].timestamp
                    \/ rows[j].timestamp = rows[i].timestamp /\ j < i}) + 1

\* df.sort_values('timestamp') / df.orderBy("timestamp")
sort_values(rows) ==
    LET place == [i \in 1..Len(rows) |-> insert_by_timestamp(rows, i)]
    IN  [k \in 1..Len(rows) |-> rows[CHOOSE i \in 1..Len(rows) : place[i] = k]]

\* the members of a set of integers, ascending
Ascending(S) ==
    IF S = {} THEN <<>>
    ELSE LET lo == CHOOSE x \in S : \A y \in S : x <= y
             hi == CHOOSE x \in S : \A y \in S : y <= x
         IN  SelectSeq([k \in 1..(hi - lo + 1) |-> lo + k - 1], LAMBDA x : x \in S)

RECURSIVE sum_close(_, _, _)
\* sum of close over the rows lo..hi
sum_close(rows, lo, hi) ==
    IF lo > hi THEN 0
    ELSE IF lo = hi THEN rows[lo].close
    ELSE LET mid == (lo + hi) \div 2
         IN  sum_close(rows, lo, mid) + sum_close(rows, mid + 1, hi)

\* close.diff() at row j, for j > 1
change(rows, j) == rows[j].close - rows[j - 1].close

RECURSIVE sum_gain(_, _, _)
\* sum of max(change, 0) over the rows lo..hi, lo > 1
sum_gain(rows, lo, hi) ==
    IF lo > hi THEN 0
    ELSE (IF change(rows, hi) > 0 THEN change(rows, hi) ELSE 0)
         + sum_gain(rows, lo, hi - 1)

RECURSIVE sum_loss(_, _, _)
\* sum of abs(min(change, 0)) over the rows lo..hi, lo > 1
sum_loss(rows, lo, hi) ==
    IF lo > hi THEN 0
    ELSE (IF change(rows, hi) < 0 THEN -change(rows, hi) ELSE 0)
         + sum_loss(rows, lo, hi - 1)

\* a row a dropna() over the whole frame removes for a missing input value
has_nan(df, i) == "adjusted_close" \in df.cols /\ df.rows[i].adjusted_close = Null

\* the points of a series: one per row of I, ascending
series(df, I, value(_)) ==
    LET ix == Ascending(I)
    IN  [k \in 1..Len(ix) |->
            [timestamp |-> df.rows[ix[k]].timestamp, value |-> value(ix[k])]]

\* a rolling mean over one row too few
pandas_calculate_sma_short(df, window) ==
    IF Len(df.rows) < window \/ "close" \notin df.cols \/ "timestamp" \notin df.cols
    THEN <<>>
    ELSE LET sma(i) == Rat(sum_close(df.rows, i - window + 2, i), window - 1)
         IN  series(df, {i \in window..Len(df.rows) : ~has_nan(df, i)}, sma)

\* PandasDataProcessingService._calculate_sma
pandas_calculate_sma(df, window) ==
    IF Len(df.rows) < window \/ "close" \notin df.cols \/ "timestamp" \notin df.cols
    THEN <<>>
    ELSE LET sma(i) == Rat(sum_close(df.rows, i - window + 1, i), window)
         IN  series(df, {i \in window..Len(df.rows) : ~has_nan(df, i)}, sma)

\* SparkDataProcessingService._calculate_sma: avg over rowsBetween(-(window-1), 0)
spark_calculate_sma(df, window) ==
    LET lo(i) == IF i > window THEN i - window + 1 ELSE 1
        sma(i) == Rat(sum_close(df.rows, lo(i), i), i - lo(i) + 1)
    IN  series(df, DOMAIN df.rows, sma)

\* 100 - 100 / (1 + avg_gain / avg_loss), for avg_loss # 0
\* the relative strength itself, scaled, in place of the index
rsi_value_unbounded(gain, loss) == Rat(100 * gain, loss)

rsi_value(gain, loss) == Rat(100 * gain, gain + loss)

\* PandasDataProcessingService._calculate_rsi
pandas_calculate_rsi(df, window) ==
    IF Len(df.rows) < window + 1 \/ "close" \notin df.cols
         \/ "timestamp" \notin df.cols
    THEN <<>>
    ELSE LET gain(i) == sum_gain(df.rows, i - window + 1, i)
             loss(i) == sum_loss(df.rows, i - window + 1, i)
             rsi(i) == rsi_value(gain(i), loss(i))
         IN  series(df, {i \in (window + 1)..Len(df.rows) :
                            loss(i) # 0 /\ ~has_nan(df, i)}, rsi)

\* SparkDataProcessingService._calculate_rsi
spark_calculate_rsi(df, window) ==
    LET lo(i) == IF i > window THEN i - window + 1 ELSE 1
        from(i) == IF lo(i) = 1 THEN 2 ELSE lo(i)
        gain(i) == sum_gain(df.rows, from(i), i)
        loss(i) == sum_loss(df.rows, from(i), i)
        rsi(i) == IF loss(i) = 0 THEN Rat(100, 1) ELSE rsi_value(gain(i), loss(i))
    IN  series(df, DOMAIN df.rows, rsi)

\* a value of the bundle whose arithmetic is left out (ema, bands, macd)
Opaque == <<"computed">>

\* min_price, max_price and, for more than one row, total_return
price_statistics(rows) ==
    LET closes == {rows[i].close : i \in DOMAIN rows}
        lowest == CHOOSE x \in closes : \A y \in closes : x <= y
        highest == CHOOSE x \in closes : \A y \in closes : x >= y
    IN  [k \in {"min_price", "max_price"}
               \cup (IF Len(rows) > 1 THEN {"total_return"} ELSE {}) |->
            CASE k = "min_price" -> Rat(lowest, 1)
              [] k = "max_price" -> Rat(highest, 1)
              [] k = "total_return" ->
                   Rat(rows[Len(rows)].close - rows[1].close, rows[1].close)]

\* PandasDataProcessingService._calculate_statistics
pandas_calculate_statistics(df) ==
    IF "close" \notin df.cols \/ "timestamp" \notin df.cols THEN <<>>
    ELSE price_statistics(df.rows)

\* SparkDataProcessingService._calculate_statistics
spark_calculate_statistics(df) ==
    IF Len(df.rows) = 0 THEN <<>> ELSE price_statistics(df.rows)

\* PandasDataProcessingService._calculate_volatility: which entries exist,
\* and whether atr_14 holds a number or None
pandas_calculate_volatility(df) ==
    IF Len(df.rows) < 2 \/ "close" \notin df.cols THEN <<>>
    ELSE [k \in {"daily", "annualized"}
                \cup (IF {"high", "low", "close"} \subseteq df.cols
                      THEN {"atr_14"} ELSE {}) |->
             IF k = "atr_14" /\ Len(df.rows) < 14 THEN Null ELSE Opaque]

\* SparkDataProcessingService._calculate_volatility
spark_calculate_volatility(df) ==
    IF Len(df.rows) < 2 THEN <<>>
    ELSE [k \in {"daily", "annualized"}
                \cup (IF {"high", "low", "close"} \subseteq df.cols
                         /\ Len(df.rows) >= 14
                      THEN {"atr_14"} ELSE {}) |-> Opaque]

\* trends['current'] of _detect_trends: the last close against the last
\* sma_20 and, from 50 rows on, the last sma_20 against the last sma_50
detect_trends(df) ==
    LET n == Len(df.rows)
        last == df.rows[n].close
        sum20 == sum_close(df.rows, n - 19, n)
        sum50 == sum_close(df.rows, n - 49, n)
    IN  IF n < 20 \/ "close" \notin df.cols THEN <<>>
        ELSE [k \in {"current"} |->
                 IF n >= 50
                 THEN IF 20 * last > sum20 /\ 50 * sum20 > 20 * sum50 THEN "bullish"
                      ELSE IF 20 * last < sum20 /\ 50 * sum20 < 20 * sum50
                      THEN "bearish" ELSE "sideways"
                 ELSE IF 20 * last > sum20 THEN "bullish"
                      ELSE IF 20 * last < sum20 THEN "bearish" ELSE "sideways"]

\* the entry of the pandas bundle under a key
pandas_entry(df, key) ==
    CASE key = "sma_5" -> pandas_calculate_sma(df, 5)
      [] key = "sma_20" -> pandas_calculate_sma(df, 20)
      [] key = "sma_50" -> pandas_calculate_sma(df, 50)
      [] key = "rsi_14" -> pandas_calculate_rsi(df, 14)
      [] key = "statistics" -> pandas_calculate_statistics(df)
      [] key = "volatility" -> pandas_calculate_volatility(df)
      [] key = "trends" -> detect_trends(df)
      [] OTHER -> Opaque

\* the entry of the Spark bundle under a key
spark_entry(df, key) ==
    CASE key = "sma_5" -> spark_calculate_sma(df, 5)
      [] key = "sma_20" -> spark_calculate_sma(df, 20)
      [] key = "sma_50" -> spark_calculate_sma(df, 50)
      [] key = "rsi_14" -> spark_calculate_rsi(df, 14)
      [] key = "statistics" -> spark_calculate_statistics(df)
      [] key = "volatility" -> spark_calculate_volatility(df)
      [] key = "trends" -> detect_trends(df)
      [] OTHER -> Opaque

\* the bundle returned from the except branch
ErrorBundle == [k \in {"error"} |-> Opaque]

\* PandasDataProcessingService.process_batch_data
pandas_process_batch_data(data, cs) ==
    LET frame == DataFrame(data, cs)
        df == IF "timestamp" \in frame.cols
              THEN [frame EXCEPT !.rows = sort_values(@)] ELSE frame
    IN  [key \in process_batch_data(Len(df.rows), FALSE) |-> pandas_entry(df, key)]

\* SparkDataProcessingService.process_batch_data; createDataFrame raises
\* for a frame that lacks a column of the schema, and create_fails tells
\* whether it does for an empty one
spark_process_batch_data(data, cs, create_fails) ==
    LET frame == DataFrame(data, cs)
        df == [frame EXCEPT !.rows = sort_values(@)]
    IN  IF (data # <<>> /\ cs # BarColumns) \/ (data = <<>> /\ create_fails)
        THEN ErrorBundle
        ELSE [key \in process_batch_data(Len(df.rows), FALSE) |->
                 spark_entry([df EXCEPT !.cols = BarColumns], key)]

----------------------------------------------------------------------------
(* The engine applied to batches of bars *)

MaxBars == 51       \* number of bars in the longest batch

\* batch sizes around the thresholds of the indicators
BarCounts == {0, 1, 2, 5, 13, 14, 15, 16, 20, 21, 50, MaxBars}

Shapes == {"flat", "rising", "falling", "zigzag", "dip"}

\* the close of the i-th bar in time order, always positive
CloseOf(shape, i) ==
    CASE shape = "flat" -> 100
      [] shape = "rising" -> 100 + i
      [] shape = "falling" -> 200 - 2 * i
      [] shape = "zigzag" -> 100 + 7 * (i % 3) - 4 * (i % 2)
      [] shape = "dip" -> IF i = 3 THEN 90 ELSE 100 + i

\* which bars lack adjusted_close
Gaps == {"none", "first", "sixteenth", "all"}

AdjustedOf(shape, gaps, i) ==
    IF gaps = "all" \/ (gaps = "first" /\ i = 1) \/ (gaps = "sixteenth" /\ i = 16)
    THEN Null ELSE Some(CloseOf(shape, i))

\* n bars on the days 1..n, in time order
BarsOf(n, shape, gaps) ==
    [i \in 1..n |-> Bar(i, CloseOf(shape, i), AdjustedOf(shape, gaps, i))]

\* a list in another order
Reversed(q) == [i \in 1..Len(q) |-> q[Len(q) + 1 - i]]
Rotated(q) == [i \in 1..Len(q) |-> q[(i % Len(q)) + 1]]
Permuted(q, perm) == [i \in 1..Len(q) |-> q[perm[i]]]
Orderings(n) == {f \in [1..n -> 1..n] : \A i, j \in 1..n : f[i] = f[j] => i = j}

\* the columns a caller's records may lack
ColumnSets == {BarColumns, BarColumns \ {"close"}, BarColumns \ {"timestamp"},
               BarColumns \ {"adjusted_close"}, BarColumns \ {"high"}}

Batch(data, cs) == [data |-> data, cols |-> cs]

EngineBatches ==
    {Batch(BarsOf(n, sh, g), BarColumns) :
        n \in BarCounts, sh \in Shapes, g \in Gaps}
    \cup {Batch(Reversed(BarsOf(n, sh, "none")), BarColumns) :
             n \in BarCounts, sh \in Shapes}
    \cup {Batch(Rotated(BarsOf(n, sh, "none")), BarColumns) :
             n \in BarCounts \ {0}, sh \in Shapes}
    \cup {Batch(Permuted(BarsOf(5, "zigzag", "none"), perm), BarColumns) :
             perm \in Orderings(5)}
    \cup {Batch(BarsOf(n, "zigzag", "none"), cs) :
             n \in BarCounts, cs \in ColumnSets}

InitEngine ==
    /\ store = <<>> /\ history = <<>> /\ inv = NoInv /\ ncalls = 0
    /\ BatchIdle
    /\ input \in EngineBatches
    /\ output = <<>>
    /\ pc = "idle" /\ log = <<>>

\* PandasDataProcessingService.process_batch_data on the batch
PandasProcess ==
    /\ "pandas" \notin DOMAIN output
    /\ output' = Put(output, "pandas",
                     pandas_process_batch_data(input.data, input.cols))
    /\ UNCHANGED <<input, pc, log, lakeVars, batchVars>>

\* SparkDataProcessingService.process_batch_data on the batch
SparkProcess ==
    /\ "spark" \notin DOMAIN output
    /\ \E create_fails \in BOOLEAN :
          output' = Put(output, "spark",
                        spark_process_batch_data(input.data, input.cols, create_fails))
    /\ UNCHANGED <<input, pc, log, lakeVars, batchVars>>

RECURSIVE merge_rows(_, _, _, _, _)
\* the rows lo..hi of the left table, each with the value of every point of
\* its timestamp, or with no value when there is none
merge_rows(rows, points, name, lo, hi) ==
    IF lo > hi THEN <<>>
    ELSE IF lo = hi
    THEN LET hits == SelectSeq(points, LAMBDA p : p.timestamp = rows[lo].timestamp)
         IN  IF hits = <<>> THEN <<Put(rows[lo], name, Null)>>
             ELSE [k \in DOMAIN hits |-> Put(rows[lo], name, Some(hits[k].value))]
    ELSE merge_rows(rows, points, name, lo, (lo + hi) \div 2)
           \o merge_rows(rows, points, name, (lo + hi) \div 2 + 1, hi)

\* pd.merge(processed_data, points renamed to `name`, on='timestamp',
\* how='left')
merge_left(rows, points, name) == merge_rows(rows, points, name, 1, Len(rows))

\* `if name in processed_results:` and `if len(...) > 0:` around the merge
merge_series(rows, bundle, name) ==
    IF name \in DOMAIN bundle /\ bundle[name] # <<>>
    THEN merge_left(rows, bundle[name], name) ELSE rows

\* the two merges of process_stock_data: sma_20, then rsi_14
merge_results(rows, bundle) ==
    merge_series(merge_series(rows, bundle, "sma_20"), bundle, "rsi_14")

\* the cleaned table of the Silver stage: the bars in time order
Cleaned == input.cols = BarColumns /\ input.data = sort_values(input.data)

\* ProcessToSilverLayerUseCase.process_stock_data: the results of the
\* backend in use are merged onto the cleaned table
MergeIndicators ==
    /\ Cleaned
    /\ "merged" \notin DOMAIN output
    /\ \E b \in {"pandas", "spark"} \cap DOMAIN output :
          /\ "error" \notin DOMAIN output[b]
          /\ output' = Put(output, "merged",
                           [of |-> b, rows |-> merge_results(input.data, output[b])])
    /\ UNCHANGED <<input, pc, log, lakeVars, batchVars>>

NextEngine == PandasProcess \/ SparkProcess \/ MergeIndicators

SpecEngine == InitEngine /\ [][NextEngine]_vars

----------------------------------------------------------------------------
(* Claims on the engine, checked under SpecEngine *)

\* both backends have processed the batch
BothApplied == {"pandas", "spark"} \subseteq DOMAIN output

\* the timestamps of a series, and its value at a timestamp
Timestamps(points) == {points[i].timestamp : i \in DOMAIN points}
ValuesAt(points, t) ==
    {points[i].value : i \in {j \in DOMAIN points : points[j].timestamp = t}}

SeriesKeys == {"sma_5", "sma_20", "sma_50", "rsi_14"}

\* C11: for every batch (here: every non-empty batch of records with all the
\* columns) the two backends return equivalent bundles: the same indicator
\* names, for each series the same timestamps with equal values at
\* each, and equal statistics, volatility and trend entries.
C11_BackendsEquivalent ==
    (BothApplied /\ input.data # <<>> /\ input.cols = BarColumns) =>
        LET p == output["pandas"]
            k == output["spark"]
        IN  /\ DOMAIN p = DOMAIN k
            /\ \A key \in DOMAIN p \cap SeriesKeys :
                  /\ Timestamps(p[key]) = Timestamps(k[key])
                  /\ \A t \in Timestamps(p[key]) :
                        ValuesAt(p[key], t) = ValuesAt(k[key], t)
            /\ \A key \in DOMAIN p \cap {"statistics", "volatility", "trends"} :
                  p[key] = k[key]

\* C12: for a batch of at least 50 bars the SMA(20) series of the two
\* backends have equal values at every timestamp that appears in both.
C12_SharedSmaEqual ==
    (BothApplied /\ Len(input.data) >= 50
       /\ "sma_20" \in DOMAIN output["pandas"] \cap DOMAIN output["spark"]) =>
        LET p == output["pandas"]["sma_20"]
            k == output["spark"]["sma_20"]
        IN  \A i \in DOMAIN p, j \in DOMAIN k :
                p[i].timestamp = k[j].timestamp => p[i].value = k[j].value

\* both backends gave SMA(20) for 50 bars of changing closes given out of
\* order, with points at shared timestamps and points of one backend only
C12_Witness ==
    /\ BothApplied
    /\ Len(input.data) >= 50
    /\ input.data[1].timestamp > input.data[2].timestamp
    /\ input.data[1].close # input.data[2].close
    /\ "sma_20" \in DOMAIN output["pandas"] \cap DOMAIN output["spark"]
    /\ Len(output["pandas"]["sma_20"]) = Len(input.data) - 19
    /\ Timestamps(output["pandas"]["sma_20"])
          \subseteq Timestamps(output["spark"]["sma_20"])
    /\ Timestamps(output["spark"]["sma_20"])
          # Timestamps(output["pandas"]["sma_20"])

\* the bars of a batch in time order (timestamps distinct)
ByTime(data) ==
    [i \in DOMAIN data |->
        CHOOSE r \in {data[j] : j \in DOMAIN data} :
            Cardinality({q \in DOMAIN data : data[q].timestamp < r.timestamp}) = i - 1]

\* the batch has every column and no missing value
Complete ==
    /\ input.cols = BarColumns
    /\ \A i \in DOMAIN input.data : input.data[i].adjusted_close # Null

\* the bars, from the 15th on, whose 14 trailing changes hold no loss
ZeroLossBars ==
    LET rows == ByTime(input.data)
    IN  {i \in 15..Len(rows) : \A j \in (i - 13)..i : change(rows, j) >= 0}

\* C13: in a batch of at least 15 bars, each backend that has run emits,
\* for every bar whose trailing 14-bar average loss is zero, an RSI(14)
\* point with the value exactly 100.
C13_ZeroLossRsiIsHundred ==
    \A b \in DOMAIN output :
        (Complete /\ Len(input.data) >= 15) =>
            /\ "rsi_14" \in DOMAIN output[b]
            /\ \A i \in ZeroLossBars :
                  ValuesAt(output[b]["rsi_14"], ByTime(input.data)[i].timestamp)
                      = {Rat(100, 1)}

\* C14: every RSI(14) value either backend emits for a batch of at least
\* 15 bars with positive prices lies in the closed interval [0, 100].
C14_RsiWithinBounds ==
    \A b \in DOMAIN output :
        (Len(input.data) >= 15 /\ "rsi_14" \in DOMAIN output[b]
           /\ \A i \in DOMAIN input.data : input.data[i].close > 0) =>
            \A k \in DOMAIN output[b]["rsi_14"] :
                LET v == output[b]["rsi_14"][k].value
                IN  v.den > 0 /\ 0 <= v.num /\ v.num <= 100 * v.den

\* both backends emitted RSI points for 15 bars or more of positive prices,
\* among them one strictly between 0 and 100 from each backend
C14_Witness ==
    /\ BothApplied
    /\ Len(input.data) >= 15
    /\ \A i \in DOMAIN input.data : input.data[i].close > 0
    /\ \A b \in {"pandas", "spark"} :
          /\ "rsi_14" \in DOMAIN output[b]
          /\ \E k \in DOMAIN output[b]["rsi_14"] :
                LET v == output[b]["rsi_14"][k].value
                IN  0 < v.num /\ v.num < 100 * v.den

\* the SMA(n) series of the batch: one point per bar from the n-th on, in
\* time order, each the mean of close over the bar and the n - 1 before it
ExpectedSma(n) ==
    LET rows == ByTime(input.data)
    IN  [k \in 1..(Len(rows) - n + 1) |->
            [timestamp |-> rows[k + n - 1].timestamp,
             value |-> Rat(sum_close(rows, k, k + n - 1), n)]]

\* C15: for a batch of N >= n bars the SMA(n) series of either backend is
\* exactly the N - n + 1 points of the bars from the n-th on, whatever
\* values are missing in other columns such as adjusted_close.
C15_SmaPointPerFullWindow ==
    \A b \in DOMAIN output : \A n \in {5, 20, 50} :
        (input.cols = BarColumns /\ Len(input.data) >= n) =>
            /\ ("sma_" \o ToString(n)) \in DOMAIN output[b]
            /\ output[b]["sma_" \o ToString(n)] = ExpectedSma(n)

\* the bars a series indicator needs
BarsNeeded(key) ==
    CASE key = "sma_5" -> 5
      [] key = "sma_20" -> 20
      [] key = "sma_50" -> 50
      [] key = "rsi_14" -> 15

\* C16: the Pandas bundle of any batch is no error bundle, it holds the key
\* of a series indicator only when the batch has the bars and the columns
\* (close, timestamp) the indicator needs, so never with an empty series,
\* rsi_14 only from 15 bars on, and volatility.atr_14 only from 14 bars on.
C16_AbsentKeyWhenTooSmall ==
    "pandas" \in DOMAIN output =>
        LET bundle == output["pandas"]
        IN  /\ "error" \notin DOMAIN bundle
            /\ \A key \in SeriesKeys \cap DOMAIN bundle :
                  /\ Len(input.data) >= BarsNeeded(key)
                  /\ {"close", "timestamp"} \subseteq input.cols
                  /\ bundle[key] # <<>>
            /\ ("volatility" \in DOMAIN bundle
                   /\ "atr_14" \in DOMAIN bundle["volatility"]) =>
                  Len(input.data) >= 14

\* the batch is given in an order that is not the time order
OutOfOrder ==
    \E i \in DOMAIN input.data : \E j \in DOMAIN input.data :
        i < j /\ input.data[i].timestamp > input.data[j].timestamp

\* C19: for bars with distinct timestamps, the bundle either backend returns
\* for the list in any order is the bundle it returns for the list in
\* ascending timestamp order.
C19_OrderOfInputIrrelevant ==
    "timestamp" \in input.cols =>
        /\ "pandas" \in DOMAIN output =>
              output["pandas"]
                  = pandas_process_batch_data(ByTime(input.data), input.cols)
        /\ "spark" \in DOMAIN output =>
              \E create_fails \in BOOLEAN :
                  output["spark"]
                      = spark_process_batch_data(ByTime(input.data), input.cols,
                                                 create_fails)

\* both backends returned windowed statistics for bars of changing closes
\* that were given out of order
C19_Witness ==
    /\ BothApplied
    /\ OutOfOrder
    /\ "timestamp" \in input.cols
    /\ \E i, j \in DOMAIN input.data : input.data[i].close # input.data[j].close
    /\ \A b \in {"pandas", "spark"} :
          /\ "sma_5" \in DOMAIN output[b]
          /\ output[b]["sma_5"] # <<>>
          /\ \A k \in 1..(Len(output[b]["sma_5"]) - 1) :
                output[b]["sma_5"][k].timestamp < output[b]["sma_5"][k + 1].timestamp

----------------------------------------------------------------------------
(* Silver cleaning of a table, cell by cell *)

MaxRows == 4        \* number of rows in the longest table

\* a timestamp cell: a datetime, or the string that spells it
Datetime(t) == [kind |-> "datetime", at |-> t]
IsoString(t) == [kind |-> "str", at |-> t]

\* pd.to_datetime on a cell
to_datetime(cell) == Datetime(cell.at)

\* column_mapping of _clean_and_standardize
column_mapping(c) ==
    CASE c = "Open" -> "open"
      [] c = "High" -> "high"
      [] c = "Low" -> "low"
      [] c = "Close" -> "close"
      [] c = "Volume" -> "volume"
      [] c = "Adj Close" -> "adjusted_close"
      [] OTHER -> c

numeric_cols == {"open", "high", "low", "close", "volume", "adjusted_close"}

\* a table: the column names in order, and the rows in order, each with its
\* index label and its cells
Table(cs, rs) == [cols |-> cs, rows |-> rs]

\* df.rename(columns=column_mapping)
rename(t) ==
    Table([k \in DOMAIN t.cols |-> column_mapping(t.cols[k])],
          [i \in DOMAIN t.rows |->
              [index |-> t.rows[i].index,
               cells |-> [c \in {column_mapping(x) : x \in DOMAIN t.rows[i].cells} |->
                            t.rows[i].cells[CHOOSE x \in DOMAIN t.rows[i].cells :
                                                column_mapping(x) = c]]]])

ColumnsOf(t) == {t.cols[k] : k \in DOMAIN t.cols}

\* df['timestamp'] = pd.to_datetime(df['timestamp'])
convert_timestamp(t) ==
    IF "timestamp" \notin ColumnsOf(t) THEN t
    ELSE [t EXCEPT !.rows =
            [i \in DOMAIN t.rows |->
                [t.rows[i] EXCEPT !.cells["timestamp"] = to_datetime(@)]]]

RECURSIVE ffill_value(_, _, _)
\* the last valid value of the column at or before row i, if there is one
ffill_value(rows, c, i) ==
    IF rows[i].cells[c] # Null THEN rows[i].cells[c]
    ELSE IF i = 1 THEN Null
    ELSE ffill_value(rows, c, i - 1)

\* df[col].fillna(method='ffill') on every numeric column present
ffill(t) ==
    [t EXCEPT !.rows =
        [i \in DOMAIN t.rows |->
            [t.rows[i] EXCEPT !.cells =
                [c \in DOMAIN t.rows[i].cells |->
                    IF c \in numeric_cols THEN ffill_value(t.rows, c, i)
                    ELSE t.rows[i].cells[c]]]]]

RECURSIVE keep_first(_, _)
\* the first k rows without those that repeat the cells of an earlier row
keep_first(rows, k) ==
    IF k = 0 THEN <<>>
    ELSE IF \E j \in 1..(k - 1) : rows[j].cells = rows[k].cells
    THEN keep_first(rows, k - 1)
    ELSE Append(keep_first(rows, k - 1), rows[k])

\* df.drop_duplicates()
drop_duplicates(t) == [t EXCEPT !.rows = keep_first(t.rows, Len(t.rows))]

\* rows in ascending order of timestamp
TimeOrdered(rows) ==
    \A i \in 1..(Len(rows) - 1) :
        rows[i].cells["timestamp"].at <= rows[i + 1].cells["timestamp"].at

\* df.sort_values('timestamp'): the default sort is not stable, rows of
\* equal timestamp come out in any order
sort_by_timestamp(t) ==
    IF "timestamp" \notin ColumnsOf(t) THEN {t}
    ELSE {[t EXCEPT !.rows = Permuted(t.rows, perm)] :
             perm \in {f \in Orderings(Len(t.rows)) :
                          TimeOrdered(Permuted(t.rows, f))}}

\* SilverLayerUseCase._clean_and_standardize: the tables it can return
clean_and_standardize_table(t) ==
    sort_by_timestamp(drop_duplicates(ffill(convert_timestamp(rename(t)))))

\* the tables read back from Bronze: named as the provider or as the lake
\* names columns, stamped with datetimes, strings or not at all, and clean
\* or not
Namings == {"canonical", "provider"}
Stamps == {"datetime", "str", "none"}
Patterns == {"clean", "missing", "leading_missing", "duplicate", "unsorted", "ties",
             "unsorted_missing", "same_time"}

ColumnsNamed(naming, stamps) ==
    (IF stamps = "none" THEN <<>> ELSE <<"timestamp">>)
      \o (IF naming = "canonical" THEN <<"open", "close", "volume">>
                                   ELSE <<"Open", "Close", "Volume">>)

CellOf(c, i, n, stamps, pattern) ==
    LET k == IF pattern = "duplicate" /\ i = 2 THEN 1 ELSE i
        t == CASE pattern \in {"unsorted", "unsorted_missing"} -> n + 1 - i
               [] pattern = "ties" -> (i + 1) \div 2
               [] pattern = "same_time" -> 1
               [] OTHER -> k
    IN  IF c = "timestamp"
        THEN (IF stamps = "str" THEN IsoString(t) ELSE Datetime(t))
        ELSE IF pattern \in {"missing", "unsorted_missing"} /\ i = 2
                  /\ column_mapping(c) = "close"
        THEN Null
        ELSE IF pattern = "leading_missing" /\ i = 1 /\ column_mapping(c) = "open"
        THEN Null
        ELSE Some((CASE column_mapping(c) = "open" -> 10
                     [] column_mapping(c) = "close" -> 20
                     [] OTHER -> 100) + k)

TableOf(n, naming, stamps, pattern) ==
    LET cs == ColumnsNamed(naming, stamps)
    IN  Table(cs, [i \in 1..n |->
                     [index |-> i - 1,
                      cells |-> [c \in {cs[k] : k \in DOMAIN cs} |->
                                   CellOf(c, i, n, stamps, pattern)]]])

BronzeTables ==
    {TableOf(n, naming, stamps, pattern) :
        n \in 0..MaxRows, naming \in Namings, stamps \in Stamps,
        pattern \in Patterns}

InitClean ==
    /\ store = <<>> /\ history = <<>> /\ inv = NoInv /\ ncalls = 0
    /\ BatchIdle
    /\ input \in BronzeTables
    /\ output = <<>>
    /\ pc = "idle" /\ log = <<>>

\* _clean_and_standardize on the table
CleanOnce ==
    /\ "first" \notin DOMAIN output
    /\ \E t \in clean_and_standardize_table(input) :
          output' = Put(output, "first", t)
    /\ UNCHANGED <<input, pc, log, lakeVars, batchVars>>

\* _clean_and_standardize on its own output
CleanAgain ==
    /\ "first" \in DOMAIN output
    /\ "second" \notin DOMAIN output
    /\ \E t \in clean_and_standardize_table(output["first"]) :
          output' = Put(output, "second", t)
    /\ UNCHANGED <<input, pc, log, lakeVars, batchVars>>

NextClean == CleanOnce \/ CleanAgain

SpecClean == InitClean /\ [][NextClean]_vars

(* Claims on Silver cleaning, checked under SpecClean *)

Cells(t) == {t.rows[i].cells : i \in DOMAIN t.rows}

\* no missing value, no duplicate row, rows in ascending timestamp order
NoMissing(t) ==
    \A i \in DOMAIN t.rows : \A c \in DOMAIN t.rows[i].cells :
        t.rows[i].cells[c] # Null
NoDuplicates(t) == Cardinality(Cells(t)) = Len(t.rows)
Sorted(t) == "timestamp" \in ColumnsOf(t) => TimeOrdered(t.rows)

\* the lake's column names and datetime timestamps
Standard(t) ==
    /\ \A c \in ColumnsOf(t) : column_mapping(c) = c
    /\ "timestamp" \in ColumnsOf(t) =>
          \A i \in DOMAIN t.rows : t.rows[i].cells["timestamp"].kind = "datetime"

----------------------------------------------------------------------------
(* The Gold monthly rollup of daily bars, row by row *)

MaxDays == 20       \* number of daily bars in the longest Silver table

\* strftime('%Y-%m')
strftime_Ym(t) == ToString(t.year) \o "-" \o Pad2(t.month)

\* one daily bar of a Silver table
Daily(t, o, h, l, c, v) ==
    [timestamp |-> t, open |-> o, high |-> h, low |-> l, close |-> c, volume |-> v]

Earlier(a, b) ==
    \/ a.year < b.year
    \/ a.year = b.year /\ a.month < b.month
    \/ a.year = b.year /\ a.month = b.month /\ a.day < b.day

RECURSIVE concat_rows(_)
\* pd.concat(all_data): the rows of the tables, in the order of the tables
concat_rows(tables) ==
    IF tables = <<>> THEN <<>> ELSE Head(tables) \o concat_rows(Tail(tables))

\* the rows of a group, in the order they have in the table
group(rows, ym) == SelectSeq(rows, LAMBDA r : strftime_Ym(r.timestamp) = ym)

RECURSIVE agg_max(_, _)
agg_max(g, k) ==
    IF k = 1 THEN g[1].high
    ELSE LET m == agg_max(g, k - 1) IN IF g[k].high > m THEN g[k].high ELSE m

RECURSIVE agg_min(_, _)
agg_min(g, k) ==
    IF k = 1 THEN g[1].low
    ELSE LET m == agg_min(g, k - 1) IN IF g[k].low < m THEN g[k].low ELSE m

RECURSIVE agg_sum(_, _)
agg_sum(g, k) == IF k = 0 THEN 0 ELSE g[k].volume + agg_sum(g, k - 1)

\* .agg({'open': 'first', 'high': 'max', 'low': 'min', 'close': 'last',
\*       'volume': 'sum', 'timestamp': 'first'}) on one group
agg_row(g, ym) ==
    [year_month |-> ym,
     open |-> g[1].open,
     high |-> agg_max(g, Len(g)),
     low |-> agg_min(g, Len(g)),
     close |-> g[Len(g)].close,
     volume |-> agg_sum(g, Len(g)),
     timestamp |-> g[1].timestamp]

\* the group keys of the table, as first days of their months
group_keys(rows) ==
    {Time(rows[i].timestamp.year, rows[i].timestamp.month, 1, 0, 0, 0, 0) :
        i \in DOMAIN rows}

RECURSIVE in_key_order(_)
\* groupby sorts the groups by key
in_key_order(keys) ==
    IF keys = {} THEN <<>>
    ELSE LET k == CHOOSE x \in keys : \A y \in keys \ {x} : Earlier(x, y)
         IN  <<k>> \o in_key_order(keys \ {k})

\* AggregateToGoldLayerUseCase._calculate_monthly_aggregations on a table
\* that has the required columns and volume: the columns the aggregation
\* yields (monthly_return, ma_3m and volatility are derived from them)
calculate_monthly_aggregations(rows) ==
    LET keys == in_key_order(group_keys(rows))
    IN  [k \in DOMAIN keys |->
            agg_row(group(rows, strftime_Ym(keys[k])), strftime_Ym(keys[k]))]

\* the days of the Silver tables: the turn of a month, and a month of
\* MaxDays daily bars
TurnDays ==
    {Time(2024, 1, 30, 0, 0, 0, 0), Time(2024, 1, 31, 0, 0, 0, 0),
     Time(2024, 2, 1, 0, 0, 0, 0), Time(2024, 2, 2, 0, 0, 0, 0)}
MarchDays(n) == {Time(2024, 3, d, 0, 0, 0, 0) : d \in 1..n}

Trends == {"up", "down"}

\* the bar of a day, with the sma_20 column the Silver merge added
BarOn(t, trend) ==
    LET x == IF trend = "up" THEN 31 * t.month + t.day
                             ELSE 400 - 31 * t.month - t.day
    IN  Put(Daily(t, x, x + 3, x - 2, x + 1, 1000 + x), "sma_20",
            Some(IF trend = "up" THEN x - 1 ELSE x + 2))

\* a Silver table: the bars of the days, in time order as Silver leaves them
SilverTable(days, trend) ==
    LET order == in_key_order(days)
    IN  [k \in DOMAIN order |-> BarOn(order[k], trend)]

\* the lists of Silver tables handed to Gold: one table or two, in any order
SilverLists ==
    LET small(trend) == {SilverTable(days, trend) : days \in SUBSET TurnDays \ {{}}}
        march(trend) == {SilverTable(MarchDays(n), trend) : n \in {1, 2, MaxDays}}
    IN  UNION {{<<t>> : t \in small(trend) \cup march(trend)}
                 \cup {<<t, u>> : t \in small(trend), u \in small(trend)}
                 \cup {<<t, u>> : t \in march(trend), u \in small(trend)} :
               trend \in Trends}

InitRollup ==
    /\ store = <<>> /\ history = <<>> /\ inv = NoInv /\ ncalls = 0
    /\ BatchIdle
    /\ input \in SilverLists
    /\ output = <<>>
    /\ pc = "idle" /\ log = <<>>

\* combined_data = pd.concat(all_data);
\* monthly_data = self._calculate_monthly_aggregations(combined_data)
Rollup ==
    /\ "monthly" \notin DOMAIN output
    /\ output' = Put(output, "monthly",
                     calculate_monthly_aggregations(concat_rows(input)))
    /\ UNCHANGED <<input, pc, log, lakeVars, batchVars>>

\* total_return_pct and current_trend of _calculate_statistics: the return
\* between the first and the last close of the table sorted by timestamp,
\* and the last row of the table as given against its sma_20
gold_calculate_statistics(rows) ==
    LET n == Len(rows)
        earliest == CHOOSE i \in DOMAIN rows : \A j \in DOMAIN rows :
                        ~Earlier(rows[j].timestamp, rows[i].timestamp)
        latest == CHOOSE i \in DOMAIN rows : \A j \in DOMAIN rows :
                      ~Earlier(rows[i].timestamp, rows[j].timestamp)
        last_row == rows[n]
        has_trend == n > 0 /\ "sma_20" \in DOMAIN last_row /\ last_row.sma_20 # Null
        sma == last_row.sma_20[1]
    IN  [k \in (IF n > 1 THEN {"total_return_pct"} ELSE {})
                 \cup (IF has_trend THEN {"current_trend"} ELSE {}) |->
            IF k = "total_return_pct"
            THEN Rat((rows[latest].close - rows[earliest].close) * 100,
                     rows[earliest].close)
            ELSE [direction |-> IF last_row.close > sma THEN "bullish" ELSE "bearish",
                  strength |-> Rat((IF last_row.close > sma THEN last_row.close - sma
                                    ELSE sma - last_row.close) * 100, sma)]]

\* statistics = self._calculate_statistics(combined_data)
Statistics ==
    /\ "statistics" \notin DOMAIN output
    /\ output' = Put(output, "statistics",
                     gold_calculate_statistics(concat_rows(input)))
    /\ UNCHANGED <<input, pc, log, lakeVars, batchVars>>

NextRollup == Rollup \/ Statistics

SpecRollup == InitRollup /\ [][NextRollup]_vars

(* Claims on the monthly rollup, checked under SpecRollup *)

RECURSIVE VolumeOver(_, _)
VolumeOver(rows, I) ==
    IF I = {} THEN 0
    ELSE LET i == CHOOSE x \in I : TRUE
         IN  rows[i].volume + VolumeOver(rows, I \ {i})

\* C18: the monthly table has exactly one row per calendar year-month of
\* the input, with open the open of the month's earliest bar, close the
\* close of its latest bar, high the maximum high, low the minimum low and
\* volume the sum of the volumes; 20 daily bars of one month give one row.
C18_MonthlyRollup ==
    "monthly" \in DOMAIN output =>
        LET rows == concat_rows(input)
            out == output["monthly"]
            months == {strftime_Ym(rows[i].timestamp) : i \in DOMAIN rows}
            of(ym) == {i \in DOMAIN rows : strftime_Ym(rows[i].timestamp) = ym}
        IN  /\ Len(out) = Cardinality(months)
            /\ {out[k].year_month : k \in DOMAIN out} = months
            /\ \A k \in DOMAIN out :
                  LET I == of(out[k].year_month)
                      earliest == CHOOSE i \in I : \A j \in I :
                                     ~Earlier(rows[j].timestamp, rows[i].timestamp)
                      latest == CHOOSE i \in I : \A j \in I :
                                   ~Earlier(rows[i].timestamp, rows[j].timestamp)
                  IN  /\ out[k].open = rows[earliest].open
                      /\ out[k].close = rows[latest].close
                      /\ \E i \in I : out[k].high = rows[i].high
                      /\ \A i \in I : out[k].high >= rows[i].high
                      /\ \E i \in I : out[k].low = rows[i].low
                      /\ \A i \in I : out[k].low <= rows[i].low
                      /\ out[k].volume = VolumeOver(rows, I)

----------------------------------------------------------------------------
(* One ticker's pipeline, step by step: _process_single_ticker of the      *)
(* batch use case, and one round of the ticker loop of the lakehouse        *)
(* pipeline's main                                                          *)

\* a step made: which, the keys it read, the puts completed when it
\* started, and whether it raised
LogEntry(step, reads, at, raised) ==
    [step |-> step, reads |-> reads, at |-> at, raised |-> raised]

\* a transform that runs whatever the flag and the prices are
after_extract_always(extracted, calculate_indicators) ==
    IF extracted.raised THEN "except" ELSE "transform"

\* `if calculate_indicators and prices:` after the extraction
after_extract(extracted, calculate_indicators) ==
    IF extracted.raised THEN "except"
    ELSE IF calculate_indicators /\ extracted.value > 0 THEN "transform"
    ELSE "end_trace"

TickerRuns ==
    {[program |-> "process_single_ticker", ticker |-> "AAPL", scenario |-> sc,
      calculate_indicators |-> ci] : sc \in Scenarios, ci \in BOOLEAN}

\* prices = self.extract_use_case.extract_historical_prices(...)
Extract ==
    /\ pc = "extract"
    /\ LET extracted == extract_historical_prices(input.scenario)
       IN  /\ log' = Append(log, LogEntry("extract", {}, 0, extracted.raised))
           /\ output' = Put(output, "prices", extracted.value)
           /\ pc' = after_extract(extracted, input.calculate_indicators)
    /\ UNCHANGED <<input, lakeVars, batchVars>>

\* indicators = self.transform_use_case.calculate_technical_indicators(...)
Transform ==
    /\ pc = "transform"
    /\ LET indicators ==
               calculate_technical_indicators(output["prices"], input.scenario)
       IN  /\ log' = Append(log, LogEntry("transform", {}, 0, indicators.raised))
           /\ output' = Put(output, "indicators", indicators.value)
           /\ pc' = IF indicators.raised THEN "except" ELSE "load"
    /\ UNCHANGED <<input, lakeVars, batchVars>>

\* self.load_use_case.load_processed_data(ticker, "technical_indicators",
\*                                        indicators)
Load ==
    /\ pc = "load"
    /\ LET loaded == load_processed_data(input.ticker, "technical_indicators",
                                         output["indicators"], input.scenario)
       IN  /\ log' = Append(log, LogEntry("load", {}, 0, loaded.raised))
           /\ output' = Put(output, "saved", loaded.saved)
           /\ pc' = IF loaded.raised THEN "except" ELSE "end_trace"
    /\ UNCHANGED <<input, lakeVars, batchVars>>

\* end_trace with success and return, or with failure and raise
EndTrace ==
    /\ pc \in {"end_trace", "except"}
    /\ input.program = "process_single_ticker"
    /\ pc' = IF pc = "end_trace" THEN "returned" ELSE "raised"
    /\ UNCHANGED <<input, output, log, lakeVars, batchVars>>

\* args.steps
StepsChoices == {"all", "bronze", "silver", "gold", "bronze-silver", "silver-gold"}

MainRuns ==
    {[program |-> "main", ticker |-> "AAPL", steps |-> st, df |-> df] :
        st \in StepsChoices, df \in DataFrames}

\* list_objects_v2 under the Bronze prefix of the ticker's prices: the puts
\* of the objects, in the order they were made
bronze_contents(h, ticker) ==
    {i \in DOMAIN h : h[i].op = "bronze" /\ h[i].ticker = ticker
                          /\ h[i].data_type = "prices"}

\* sorted(..., key=LastModified, reverse=True)[0]['Key']
latest_file(h, ticker) ==
    h[CHOOSE i \in bronze_contents(h, ticker) :
          \A j \in bronze_contents(h, ticker) : j <= i].key

RECURSIVE silver_contents(_, _, _)
\* list_objects_v2 under the Silver prefix of the ticker's prices: the keys
\* of the first k puts, each once
silver_contents(h, ticker, k) ==
    IF k = 0 THEN <<>>
    ELSE LET before == silver_contents(h, ticker, k - 1)
         IN  IF h[k].op = "silver" /\ h[k].ticker = ticker
                  /\ h[k].key \notin {before[i] : i \in DOMAIN before}
             THEN Append(before, h[k].key) ELSE before

\* silver_keys of the Gold step: the listing, or the key Silver returned
silver_keys_of(st, h, ticker, silver_key) ==
    IF st = "gold" THEN silver_contents(h, ticker, Len(h)) ELSE <<silver_key>>

\* a use case was called: the bucket after it, and its entry in the log
StageCall(step, reads, effect) ==
    /\ store' = effect.store
    /\ history' = effect.history
    /\ inv' = effect.inv
    /\ ncalls' = ncalls + 1
    /\ log' = Append(log, LogEntry(step, reads, Len(history), effect.inv.raised))

\* the step is not among args.steps, or the round ends with `continue`
StageSkipped(next) ==
    /\ pc' = next
    /\ UNCHANGED <<output, log, lakeVars>>

\* 1. stock.history(...) and bronze_use_case.load_stock_data(...)
MainBronze ==
    /\ pc = "bronze"
    /\ IF input.steps \notin {"all", "bronze", "bronze-silver"}
       THEN StageSkipped("silver")
       ELSE IF input.df.rows = 0
       THEN StageSkipped("continue")
       ELSE \E now \in StageTimes, fault \in BronzeFaults :
              LET effect == load_stock_data(store, history, input.ticker, input.df,
                                            "prices", <<now>>, now, fault)
              IN  /\ StageCall("bronze", {}, effect)
                  /\ output' = IF effect.inv.raised THEN output
                                ELSE Put(output, "bronze_key", effect.inv.ret["key"])
                  /\ pc' = IF effect.inv.raised THEN "except" ELSE "silver"
    /\ UNCHANGED <<input, batchVars>>

\* 2. silver_use_case.process_stock_data(ticker, bronze_key); the key is the
\* latest Bronze file when the Bronze step is not run
MainSilver ==
    /\ pc = "silver"
    /\ IF input.steps \notin {"all", "silver", "bronze-silver", "silver-gold"}
       THEN StageSkipped("gold")
       ELSE IF input.steps \in {"silver", "silver-gold"}
                 /\ bronze_contents(history, input.ticker) = {}
       THEN StageSkipped("continue")
       ELSE \E now \in StageTimes, fault \in SilverFaults :
              LET bronze_key == IF input.steps \in {"silver", "silver-gold"}
                                THEN latest_file(history, input.ticker)
                                ELSE output["bronze_key"]
                  effect == process_stock_data(store, history, input.ticker,
                                               bronze_key, now, fault)
              IN  /\ StageCall("silver", {bronze_key}, effect)
                  /\ output' = IF effect.inv.raised THEN output
                                ELSE Put(output, "silver_key", effect.inv.ret["key"])
                  /\ pc' = IF effect.inv.raised THEN "except" ELSE "gold"
    /\ UNCHANGED <<input, batchVars>>

\* 3. gold_use_case.aggregate_stock_data(ticker, silver_keys); the keys are
\* the Silver listing when only the Gold step is run
MainGold ==
    /\ pc = "gold"
    /\ IF input.steps \notin {"all", "gold", "silver-gold"}
       THEN StageSkipped("success")
       ELSE IF input.steps = "gold"
                 /\ silver_contents(history, input.ticker, Len(history)) = <<>>
       THEN StageSkipped("continue")
       ELSE \E now \in StageTimes, fault \in GoldFaults :
              LET silver_key == IF "silver_key" \in DOMAIN output
                                THEN output["silver_key"] ELSE ""
                  silver_keys == silver_keys_of(input.steps, history, input.ticker,
                                                silver_key)
                  effect == aggregate_stock_data(store, history, input.ticker,
                                                 silver_keys, now, fault)
              IN  /\ StageCall("gold", {silver_keys[i] : i \in DOMAIN silver_keys},
                               effect)
                  /\ output' = IF effect.inv.raised THEN output
                                ELSE Put(output, "gold_keys", effect.inv.ret)
                  /\ pc' = IF effect.inv.raised THEN "except" ELSE "success"
    /\ UNCHANGED <<input, batchVars>>

\* results[ticker] is set: success, or the error of the except block
MainResult ==
    /\ pc \in {"success", "except"}
    /\ input.program = "main"
    /\ output' = Put(output, "status", IF pc = "success" THEN "success" ELSE "error")
    /\ pc' = "next_ticker"
    /\ UNCHANGED <<input, log, lakeVars, batchVars>>

InitStages ==
    /\ inv = NoInv
    /\ ncalls = 0
    /\ BatchIdle
    /\ output = <<>>
    /\ log = <<>>
    /\ \/ /\ input \in TickerRuns
          /\ pc = "extract"
          /\ store = <<>> /\ history = <<>>
       \/ /\ input \in MainRuns
          /\ pc = "bronze"
          /\ \E e \in LakeStates({"AAPL"}, {"prices"}, {StageNow}, StageTimes,
                                  {Frame(3, BarColumns)}, {"none"}) :
                store = e.store /\ history = e.history

NextStages ==
    \/ Extract \/ Transform \/ Load \/ EndTrace
    \/ MainBronze \/ MainSilver \/ MainGold \/ MainResult

SpecStages == InitStages /\ [][NextStages]_vars

(* Claims on the order of the steps, checked under SpecStages *)

\* a put of the stage `op` for the key completed among the first `at` puts
PutCompleted(op, key, at) ==
    \E i \in 1..at : history[i].op = op /\ history[i].key = key

\* C20: the transform step is made only right after an extraction that
\* returned at least one price, with calculate_indicators set; the load step
\* only right after a transform that returned; no step follows a step that
\* raised; Silver reads only a Bronze key whose put had completed, and Gold
\* only Silver keys whose put had completed.
C20_StagesSequential ==
    \A i \in DOMAIN log :
        /\ log[i].step = "transform" =>
              /\ i > 1 /\ log[i - 1].step = "extract" /\ ~log[i - 1].raised
              /\ input.calculate_indicators
              /\ output["prices"] >= 1
        /\ log[i].step = "load" =>
              i > 1 /\ log[i - 1].step = "transform" /\ ~log[i - 1].raised
        /\ log[i].raised => i = Len(log)
        /\ log[i].step = "silver" =>
              \A key \in log[i].reads : PutCompleted("bronze", key, log[i].at)
        /\ log[i].step = "gold" =>
              /\ log[i].reads # {}
              /\ \A key \in log[i].reads : PutCompleted("silver", key, log[i].at)
        /\ (log[i].step = "silver" /\ input.steps \in {"all", "bronze-silver"}) =>
              i > 1 /\ log[i - 1].step = "bronze" /\ ~log[i - 1].raised
        /\ (log[i].step = "gold" /\ input.steps \in {"all", "silver-gold"}) =>
              i > 1 /\ log[i - 1].step = "silver" /\ ~log[i - 1].raised

\* a ticker went through extract, transform and load
C20_Witness ==
    /\ input.program = "process_single_ticker"
    /\ pc = "returned"
    /\ Len(log) = 3
    /\ log[3].step = "load" /\ ~log[3].raised

\* a round of the lakehouse pipeline ran Bronze, Silver and Gold
LakeRoundCompleted ==
    /\ input.program = "main"
    /\ pc = "next_ticker"
    /\ Len(log) = 3
    /\ log[2].reads # {} /\ log[3].reads # {}
    /\ ~log[3].raised

----------------------------------------------------------------------------
(* process_batch_data called on a caller's list of records, whose          *)
(* timestamps are datetimes or the strings that spell them                  *)

MaxRepeats == 2      \* calls of one backend on the same list

\* the caller's records, from bars with plain timestamps
Records(rows, stamps) ==
    [i \in DOMAIN rows |->
        [rows[i] EXCEPT !.timestamp =
            IF stamps = "str" THEN IsoString(@) ELSE Datetime(@)]]

\* the rows of the frame built from the records, timestamps converted
FrameRows(data) == [i \in DOMAIN data |-> [data[i] EXCEPT !.timestamp = @.at]]

\* the Spark backend's loop over the caller's records:
\* record['timestamp'] = datetime.fromisoformat(record['timestamp'])
fromisoformat_records(data) ==
    [i \in DOMAIN data |-> [data[i] EXCEPT !.timestamp = to_datetime(@)]]

\* one call: the backend, the caller's list before and after it, the bundle
EngineCall(backend, before, after, bundle) ==
    [backend |-> backend, before |-> before, after |-> after, bundle |-> bundle]

CallsOf(backend) == Cardinality({i \in DOMAIN log : log[i].backend = backend})

CallerLists ==
    {Batch(Records(BarsOf(n, sh, "none"), st), BarColumns) :
        n \in {0, 1, 2, 5, 15, 20}, sh \in Shapes, st \in {"datetime", "str"}}

InitCalls ==
    /\ store = <<>> /\ history = <<>> /\ inv = NoInv /\ ncalls = 0
    /\ BatchIdle
    /\ input \in CallerLists
    /\ output = <<>>
    /\ pc = "idle" /\ log = <<>>

\* PandasDataProcessingService.process_batch_data(batch_id, data): the frame
\* is a copy of the records, the conversion is made on the frame
PandasCall ==
    /\ CallsOf("pandas") < MaxRepeats
    /\ LET bundle == pandas_process_batch_data(FrameRows(input.data), input.cols)
       IN  /\ log' = Append(log, EngineCall("pandas", input.data, input.data, bundle))
           /\ output' = Put(output, "pandas", bundle)
    /\ UNCHANGED <<input, pc, lakeVars, batchVars>>

\* SparkDataProcessingService.process_batch_data(batch_id, data): the
\* conversion is made on the caller's records, before the frame is built
SparkCall ==
    /\ CallsOf("spark") < MaxRepeats
    /\ \E create_fails \in BOOLEAN :
          LET data == fromisoformat_records(input.data)
              bundle == spark_process_batch_data(FrameRows(data), input.cols,
                                                 create_fails)
          IN  /\ log' = Append(log, EngineCall("spark", input.data, data, bundle))
              /\ output' = Put(output, "spark", bundle)
              /\ input' = [input EXCEPT !.data = data]
    /\ UNCHANGED <<pc, lakeVars, batchVars>>

NextCalls == PandasCall \/ SparkCall

SpecCalls == InitCalls /\ [][NextCalls]_vars

(* Claims on the calls, checked under SpecCalls *)

\* C21: a call of process_batch_data, of either backend, puts nothing into
\* storage, leaves the caller's list and every record of it unchanged, and
\* two calls of one backend on the same non-empty list return the same
\* bundle.
C21_ProcessBatchDataPure ==
    /\ store = <<>> /\ history = <<>>
    /\ \A i \in DOMAIN log : log[i].after = log[i].before
    /\ \A i, j \in DOMAIN log :
          (log[i].backend = log[j].backend /\ log[i].before = log[j].before
             /\ log[i].before # <<>>) =>
              log[i].bundle = log[j].bundle

(* Further claims on Silver cleaning, checked under SpecClean *)

\* the row of the table that carries the index label
RowAt(t, label) == t.rows[CHOOSE i \in DOMAIN t.rows : t.rows[i].index = label]

\* C22: in the cleaned table a numeric field that was missing in the input
\* and is filled holds the value that field has in the nearest input row of
\* an earlier timestamp with a valid value, whatever the row order of the
\* input.
C22_FillNeverLooksAhead ==
    ("first" \in DOMAIN output /\ "timestamp" \in ColumnsOf(input)) =>
        LET given == rename(input)
            time(row) == row.cells["timestamp"].at
        IN  \A k \in DOMAIN output["first"].rows :
                LET row == output["first"].rows[k]
                    was == RowAt(given, row.index)
                IN  \A c \in DOMAIN row.cells \cap numeric_cols :
                        (was.cells[c] = Null /\ row.cells[c] # Null) =>
                            \E i \in DOMAIN given.rows :
                                /\ time(given.rows[i]) < time(was)
                                /\ given.rows[i].cells[c] = row.cells[c]
                                /\ \A j \in DOMAIN given.rows :
                                      (time(given.rows[j]) < time(was)
                                         /\ given.rows[j].cells[c] # Null) =>
                                          time(given.rows[j]) <= time(given.rows[i])

\* C23: no two rows of the cleaned table carry the same timestamp.
C23_NoDuplicateTimestamps ==
    ("first" \in DOMAIN output /\ "timestamp" \in ColumnsOf(input)) =>
        \A i, j \in DOMAIN output["first"].rows :
            output["first"].rows[i].cells["timestamp"]
                = output["first"].rows[j].cells["timestamp"] => i = j

(* The claim on the Silver merge, checked under SpecEngine *)

\* C24: the merged table has one row for each row of the cleaned bar table,
\* in the same order, with the bar fields unchanged, and for every
\* single-valued series of the bundle a column that holds the value of the
\* point of the row's timestamp, or nothing when there is no such point.
C24_MergeKeepsBarsAddsSeries ==
    "merged" \in DOMAIN output =>
        LET rows == output["merged"].rows
            bundle == output[output["merged"].of]
        IN  /\ Len(rows) = Len(input.data)
            /\ \A i \in DOMAIN rows :
                  /\ \A f \in DOMAIN input.data[i] : rows[i][f] = input.data[i][f]
                  /\ \A name \in SeriesKeys \cap DOMAIN bundle :
                        /\ name \in DOMAIN rows[i]
                        /\ rows[i][name] \in
                              {Null} \cup {Some(v) : v \in ValuesAt(bundle[name],
                                                                  rows[i].timestamp)}
                        /\ rows[i][name] = Null =>
                              ValuesAt(bundle[name], rows[i].timestamp) = {}

(***************************************************************************)
(* Pivot points of the pandas engine: _find_pivot_points on a price table  *)
(***************************************************************************)

\* the longest price table drawn
MaxCloses == 5

\* the close prices and the windows drawn
Prices == 1..3
Windows == {1, 2}

\* the tables drawn: rows in ascending order of timestamp, with both columns
\* or without the close column
PriceTables ==
    {[rows |-> [i \in 1..Len(c) |-> [timestamp |-> i, close |-> c[i]]],
      cols |-> cs, window |-> w] :
        c \in UNION {[1..k -> Prices] : k \in 0..MaxCloses},
        cs \in {{"timestamp", "close"}, {"timestamp"}},
        w \in Windows}

\* no other bar of the window i-w .. i+w has a close above that of bar i
is_pivot_high(rows, i, w) ==
    \A j \in (i - w)..(i + w) : j # i => ~(rows[j].close > rows[i].close)

\* no other bar of the window i-w .. i+w has a close below that of bar i
is_pivot_low(rows, i, w) ==
    \A j \in (i - w)..(i + w) : j # i => ~(rows[j].close < rows[i].close)

\* one entry per recorded bar, in bar order: a pivot high is recorded as
\* resistance, otherwise a pivot low as support
find_pivot_points(df, w) ==
    IF Len(df.rows) < w * 2 + 1 \/ "close" \notin df.cols \/ "timestamp" \notin df.cols
    THEN <<>>
    ELSE LET bar(k) == k + w
             entry(i) ==
                 [timestamp |-> df.rows[i].timestamp,
                  price |-> df.rows[i].close,
                  type |-> IF is_pivot_high(df.rows, i, w) THEN "resistance"
                           ELSE IF is_pivot_low(df.rows, i, w) THEN "support"
                           ELSE "none"]
         IN  SelectSeq([k \in 1..(Len(df.rows) - 2 * w) |-> entry(bar(k))],
                       LAMBDA p : p.type # "none")

InitPivots ==
    /\ input \in PriceTables
    /\ output = <<>>
    /\ pc = "idle" /\ log = <<>>
    /\ store = <<>> /\ history = <<>> /\ inv = NoInv /\ ncalls = 0
    /\ BatchIdle

FindPivotPoints ==
    /\ pc = "idle"
    /\ output' = find_pivot_points(input, input.window)
    /\ pc' = "done"
    /\ UNCHANGED <<input, log, lakeVars, batchVars>>

NextPivots == FindPivotPoints

SpecPivots == InitPivots /\ [][NextPivots]_vars

\* C25: bar i of the loop range is recorded as resistance exactly when its
\* close is strictly above the close of every other bar of its window, as
\* support exactly when it is strictly below, and no two recorded pivots of
\* one type lie in one window with the same price.
C25_PivotsStrictAndTiesOnce ==
    (pc = "done" /\ input.cols = {"timestamp", "close"}) =>
        LET w == input.window
            rows == input.rows
            recorded(i, type) ==
                \E k \in DOMAIN output :
                    output[k].timestamp = rows[i].timestamp /\ output[k].type = type
        IN  /\ \A i \in (w + 1)..(Len(rows) - w) :
                  /\ recorded(i, "resistance") <=>
                        \A j \in (i - w)..(i + w) : j # i => rows[i].close > rows[j].close
                  /\ recorded(i, "support") <=>
                        \A j \in (i - w)..(i + w) : j # i => rows[i].close < rows[j].close
            /\ \A a, b \in DOMAIN output :
                  (a < b /\ output[a].type = output[b].type
                         /\ output[a].price = output[b].price)
                      => output[b].timestamp - output[a].timestamp > w

(***************************************************************************)
(* Average true range: _calculate_volatility of the two engines on bars    *)
(* with high, low and close                                                *)
(***************************************************************************)

\* the longest table of bars drawn
MaxAtrBars == 15

Abs(x) == IF x < 0 THEN -x ELSE x

\* the largest member of a non-empty set of integers: max(axis=1)
RowMax(S) == CHOOSE x \in S : \A y \in S : y <= x

\* pandas engine: tr1, tr2 and tr3 of row i; the first row has no previous
\* close, and max(axis=1) skips the two missing values
pandas_true_range(rows, i) ==
    LET tr1 == rows[i].high - rows[i].low
    IN  IF i = 1 THEN tr1
        ELSE LET previous_close == rows[i - 1].close
                 tr2 == Abs(rows[i].high - previous_close)
                 tr3 == Abs(rows[i].low - previous_close)
             IN  RowMax({tr1, tr2, tr3})

\* Spark engine: tr1, tr2 and tr3 of row i
spark_true_range(rows, i) ==
    LET tr1 == rows[i].high - rows[i].low
    IN  IF i = 1 THEN tr1
        ELSE LET previous_close == rows[i - 1].close
                 tr2 == rows[i].high - Abs(previous_close)
                 tr3 == rows[i].low - Abs(previous_close)
             IN  RowMax({tr1, tr2, tr3})

RECURSIVE sum_true_range(_, _, _, _)
\* sum over the rows lo..hi of the true range the engine computes
sum_true_range(engine, rows, lo, hi) ==
    IF lo > hi THEN 0
    ELSE (IF engine = "pandas" THEN pandas_true_range(rows, hi)
          ELSE spark_true_range(rows, hi))
         + sum_true_range(engine, rows, lo, hi - 1)

\* true_range.rolling(window=14).mean().iloc[-1], for 14 rows or more
atr_14(engine, rows) ==
    Rat(sum_true_range(engine, rows, Len(rows) - 13, Len(rows)), 14)

\* the volatility entry with the number atr_14 holds
with_atr(volatility, engine, rows) ==
    [k \in DOMAIN volatility |->
        IF k = "atr_14" /\ volatility[k] = Opaque THEN atr_14(engine, rows)
        ELSE volatility[k]]

\* the bars drawn: every bar 10..12 closing at 11, but bar g, which lies
\* inside that range, wholly below the previous close, or wholly above it
GapKinds == {"inside", "gap_down", "gap_up"}

OhlcBar(t, kind) ==
    CASE kind = "gap_down" -> [timestamp |-> t, high |-> 8, low |-> 6, close |-> 7]
      [] kind = "gap_up" -> [timestamp |-> t, high |-> 16, low |-> 14, close |-> 15]
      [] OTHER -> [timestamp |-> t, high |-> 12, low |-> 10, close |-> 11]

OhlcTables ==
    {[rows |-> [i \in 1..n |-> OhlcBar(i, IF i = g THEN kind ELSE "inside")],
      cols |-> IF n = 0 THEN {} ELSE cs] :
        <<n, g>> \in {q \in (0..MaxAtrBars) \X (1..MaxAtrBars) :
                        q[2] <= q[1] \/ q[2] = 1},
        kind \in GapKinds,
        cs \in {{"timestamp", "high", "low", "close"}, {"timestamp", "close"}}}

InitAtr ==
    /\ input \in OhlcTables
    /\ output = <<>>
    /\ pc = "idle" /\ log = <<>>
    /\ store = <<>> /\ history = <<>> /\ inv = NoInv /\ ncalls = 0
    /\ BatchIdle

PandasVolatility ==
    /\ "pandas" \notin DOMAIN output
    /\ output' = Put(output, "pandas",
                     with_atr(pandas_calculate_volatility(input), "pandas", input.rows))
    /\ UNCHANGED <<input, pc, log, lakeVars, batchVars>>

SparkVolatility ==
    /\ "spark" \notin DOMAIN output
    /\ output' = Put(output, "spark",
                     with_atr(spark_calculate_volatility(input), "spark", input.rows))
    /\ UNCHANGED <<input, pc, log, lakeVars, batchVars>>

NextAtr == PandasVolatility \/ SparkVolatility

SpecAtr == InitAtr /\ [][NextAtr]_vars

\* the true range of row i as the maximum of high - low, |high - previous
\* close| and |low - previous close|
TrueRange(rows, i) ==
    IF i = 1 THEN rows[i].high - rows[i].low
    ELSE RowMax({rows[i].high - rows[i].low,
                 Abs(rows[i].high - rows[i - 1].close),
                 Abs(rows[i].low - rows[i - 1].close)})

RECURSIVE SumTrueRange(_, _, _)
SumTrueRange(rows, lo, hi) ==
    IF lo > hi THEN 0 ELSE TrueRange(rows, hi) + SumTrueRange(rows, lo, hi - 1)

\* C26: on a table of 14 bars or more with high, low and close, each engine
\* reports as atr_14 the mean of the true ranges of the last 14 bars, and the
\* two engines report the same atr_14.
C26_AtrSameInBothEngines ==
    ({"pandas", "spark"} \subseteq DOMAIN output
        /\ Len(input.rows) >= 14 /\ {"high", "low", "close"} \subseteq input.cols) =>
        LET expected == Rat(SumTrueRange(input.rows, Len(input.rows) - 13,
                                         Len(input.rows)), 14)
        IN  /\ "atr_14" \in DOMAIN output["pandas"]
            /\ "atr_14" \in DOMAIN output["spark"]
            /\ output["pandas"]["atr_14"] = expected
            /\ output["spark"]["atr_14"] = expected

(***************************************************************************)
(* The Batch Orchestrator step by step, with the trace events it emits and *)
(* tickers lists that may name a ticker more than once                     *)
(***************************************************************************)

\* length of the longest tickers list of a traced call
MaxTraced == 2

\* the lists of at most MaxTraced tickers over two names
TracedLists == UNION {[1..n -> {"T1", "T2"}] : n \in 0..MaxTraced}

\* the id start_trace returns: a fresh uuid per call
BatchTraceId == "batch"
TickerTraceId(i) == "ticker_" \o ToString(i)
TraceIds == {BatchTraceId} \cup {TickerTraceId(i) : i \in 1..MaxTraced}

\* AWSObservabilityService.start_trace: the event handed to log_event, which
\* keeps a failure of the log sink to itself (sent is false)
start_trace(events, name, id, c) ==
    Append(events, [event |-> "trace_start_" \o name, trace_id |-> id,
                    status |-> "started", sent |-> c.sink = "up"])

\* AWSObservabilityService.end_trace
end_trace(events, id, success, c) ==
    Append(events, [event |-> "trace_end", trace_id |-> id,
                    status |-> IF success THEN "success" ELSE "failed",
                    sent |-> c.sink = "up"])

\* the with statement leaves the pool once every submitted work item is over
shutdown_nowait(fs) == TRUE
shutdown_wait(fs) == \A i \in DOMAIN fs : fs[i] \in {"done", "collected"}

InitTraces ==
    /\ store = <<>> /\ history = <<>> /\ inv = NoInv /\ ncalls = 0
    /\ \E tickers \in TracedLists, p \in BOOLEAN, ci \in BOOLEAN,
          sink \in {"up", "down"}, k \in 0..MaxTraced :
          \E env \in Envs(tickers) :
              /\ k <= Len(tickers)
              /\ k > 0 => p /\ Len(tickers) > 1
              /\ call = [tickers |-> tickers, parallel |-> p,
                         calculate_indicators |-> ci, env |-> env,
                         sink |-> sink, submit_fails |-> k]
    /\ phase = "idle"
    /\ futures = <<>>
    /\ results = <<>>
    /\ errors = <<>>
    /\ market_data = {}
    /\ traces = {}
    /\ report = <<>>
    /\ PureIdle

\* process_tickers up to the loop: the batch trace is started; with a pool
\* every ticker is submitted, unless submit number submit_fails raises
TraceBatchStart ==
    /\ phase = "idle"
    /\ log' = start_trace(log, "batch_process", BatchTraceId, call)
    /\ IF call.submit_fails > 0
       THEN /\ futures' = [i \in 1..(call.submit_fails - 1) |-> "queued"]
            /\ phase' = "failing"
       ELSE /\ futures' = [i \in DOMAIN call.tickers |-> "queued"]
            /\ phase' = "try"
    /\ UNCHANGED <<call, results, errors, market_data, traces, report>>
    /\ UNCHANGED <<input, output, pc>>
    /\ UNCHANGED lakeVars

\* _process_single_ticker begins: in a worker thread of the pool, or in the
\* loop once the ticker before it is dealt with
TraceTickerStart ==
    /\ phase \in {"try", "failing"}
    /\ \E i \in DOMAIN futures :
          /\ futures[i] = "queued"
          /\ \A j \in DOMAIN futures : j < i => futures[j] # "queued"
          /\ IF use_pool(call) THEN Cardinality(Running) < max_workers
             ELSE \A j \in DOMAIN futures : j < i => futures[j] = "collected"
          /\ futures' = [futures EXCEPT ![i] = "running"]
          /\ log' = start_trace(log, "ticker_process", TickerTraceId(i), call)
    /\ UNCHANGED <<call, phase, results, errors, market_data, traces, report>>
    /\ UNCHANGED <<input, output, pc>>
    /\ UNCHANGED lakeVars

\* _process_single_ticker runs to its end: the ticker trace is ended with
\* success before the return, with failure before the exception is raised again
TraceTickerEnd ==
    /\ phase \in {"try", "failing"}
    /\ \E i \in Running :
          LET outcome == WorkUnit(call, i)
          IN  /\ futures' = [futures EXCEPT ![i] = "done"]
              /\ market_data' = market_data \cup outcome.saved
              /\ traces' = traces \cup {TickerTrace(call.tickers[i], outcome)}
              /\ log' = end_trace(log, TickerTraceId(i), ~outcome.raised, call)
    /\ UNCHANGED <<call, phase, results, errors, report>>
    /\ UNCHANGED <<input, output, pc>>
    /\ UNCHANGED lakeVars

\* the try statement around the call or around future.result()
TraceCollect ==
    /\ phase = "try"
    /\ \E i \in as_completed(futures) :
          LET step == IF use_pool(call)
                      THEN future_result_try(results, errors, call.tickers[i],
                                             WorkUnit(call, i))
                      ELSE sequential_try(results, errors, call.tickers[i],
                                          WorkUnit(call, i))
          IN  /\ futures' = [futures EXCEPT ![i] = "collected"]
              /\ results' = step.results
              /\ errors' = step.errors
    /\ UNCHANGED <<call, phase, market_data, traces, report, log>>
    /\ UNCHANGED <<input, output, pc>>
    /\ UNCHANGED lakeVars

\* after the loop: the batch trace is ended and the report returned
TraceBatchEnd ==
    /\ phase = "try"
    /\ \A i \in DOMAIN futures : futures[i] = "collected"
    /\ log' = end_trace(log, BatchTraceId, Len(errors) = 0, call)
    /\ traces' = traces \cup {BatchTrace(Len(errors) = 0)}
    /\ report' = batch_report(call.tickers, results)
    /\ phase' = "returned"
    /\ UNCHANGED <<call, futures, results, errors, market_data>>
    /\ UNCHANGED <<input, output, pc>>
    /\ UNCHANGED lakeVars

\* the except branch of process_tickers, entered when the with statement has
\* been left: the batch trace is ended with failure, the exception raised again
TraceBatchFail ==
    /\ phase = "failing"
    /\ shutdown_wait(futures)
    /\ log' = end_trace(log, BatchTraceId, FALSE, call)
    /\ traces' = traces \cup {BatchTrace(FALSE)}
    /\ phase' = "raised"
    /\ UNCHANGED <<call, futures, results, errors, market_data, report>>
    /\ UNCHANGED <<input, output, pc>>
    /\ UNCHANGED lakeVars

NextTraces ==
    \/ TraceBatchStart \/ TraceTickerStart \/ TraceTickerEnd
    \/ TraceCollect \/ TraceBatchEnd \/ TraceBatchFail

SpecTraces == InitTraces /\ [][NextTraces]_vars

\* every thread that can take a step takes one in the end
FairSpecTraces == SpecTraces /\ WF_vars(NextTraces)

----------------------------------------------------------------------------
(* Claims on the traces and the report, checked under SpecTraces *)

\* the positions of the log where the trace id is started, and where ended
StartsOf(id) ==
    {k \in DOMAIN log : log[k].trace_id = id /\ log[k].status = "started"}
EndsOf(id) ==
    {k \in DOMAIN log : log[k].trace_id = id /\ log[k].status # "started"}

Started(id) == StartsOf(id) # {}
Ended(id) == EndsOf(id) # {}

\* the traces are paired and nested in the log so far
TracePairing ==
    /\ \A id \in TraceIds :
          /\ Cardinality(StartsOf(id)) <= 1
          /\ Cardinality(EndsOf(id)) <= 1
          /\ \A e \in EndsOf(id) : \E b \in StartsOf(id) : b < e
          /\ phase \in {"returned", "raised"} =>
                 Cardinality(EndsOf(id)) = Cardinality(StartsOf(id))
    /\ \A i \in 1..MaxTraced :
          \A e \in EndsOf(TickerTraceId(i)) :
              /\ log[e].status = "success" => ~WorkUnit(call, i).raised
              /\ \A b \in StartsOf(BatchTraceId) : b < e
              /\ \A f \in EndsOf(BatchTraceId) : e < f
    /\ \A f \in EndsOf(BatchTraceId) :
          /\ \A i \in 1..MaxTraced :
                 \A b \in StartsOf(TickerTraceId(i)) :
                     b < f /\ \E e \in EndsOf(TickerTraceId(i)) : e < f
          /\ log[f].status = "success" =>
                 /\ phase = "returned"
                 /\ \A i \in DOMAIN call.tickers : ~WorkUnit(call, i).raised

\* C27: every trace id start_trace returned is handed to end_trace, and only
\* once; a trace is ended with success only when its work ended without an
\* error; the batch trace is ended after every ticker trace of the batch;
\* and every trace that is started is ended in the end.
C27_TracesPairedAndNested ==
    /\ []TracePairing
    /\ \A id \in TraceIds : Started(id) ~> Ended(id)

\* a call whose pool fails while a ticker that fails is at work, with the log
\* sink down, has raised
C27_Witness ==
    /\ phase = "raised"
    /\ call.sink = "down"
    /\ \E i \in DOMAIN futures :
          /\ WorkUnit(call, i).raised
          /\ Ended(TickerTraceId(i))

\* C30: in a report, total is the number of entries of results, successful
\* the number of entries with status success, failed the number of entries
\* with status error, which is the number of failures of tickers.
C30_ReportCountsMatchResults ==
    phase = "returned" =>
        /\ report.total = Cardinality(DOMAIN report.results)
        /\ report.successful =
              Cardinality({t \in DOMAIN report.results :
                              report.results[t].status = "success"})
        /\ report.failed = Cardinality(ErrorEntries(report.results))
        /\ report.failed = Len(errors)

----------------------------------------------------------------------------
(* The claim on the writes of a stage, checked under Spec *)

\* C28: an invocation of a stage that raises has put no object, and an
\* invocation that returns has put an object under every key it returns.
C28_StageWritesAllOrNothing ==
    inv.op # "none" =>
        /\ inv.raised => inv.puts = <<>>
        /\ ~inv.raised =>
              \A r \in DOMAIN inv.ret :
                  /\ inv.ret[r] \in DOMAIN store
                  /\ \E k \in DOMAIN inv.puts : inv.puts[k].key = inv.ret[r]

----------------------------------------------------------------------------
(* The claim on the order of the Silver keys, checked under SpecRollup *)

\* C29: the monthly rollup and the statistics computed from a list of
\* Silver tables are those computed from the same tables in the other order.
C29_KeyOrderIrrelevant ==
    /\ "monthly" \in DOMAIN output =>
          output["monthly"] = calculate_monthly_aggregations(concat_rows(Reversed(input)))
    /\ "statistics" \in DOMAIN output =>
          output["statistics"] = gold_calculate_statistics(concat_rows(Reversed(input)))

\* the part of it that holds: the total return does not depend on the order
TotalReturnSame ==
    ("statistics" \in DOMAIN output /\ "total_return_pct" \in DOMAIN output["statistics"]) =>
        output["statistics"]["total_return_pct"] =
            gold_calculate_statistics(concat_rows(Reversed(input)))["total_return_pct"]

====
